---------------------------- MODULE Spec2Model ----------------------------
(***************************************************************************)
(* Exact win-probability analysis of the reduced-deck blackjack games of   *)
(* chiamp/skill-expression-game-analysis: the game engines                 *)
(* (one_player_blackjack/blackjack.py, two_player_blackjack/blackjack.py), *)
(* the enumerator of initial deals, and the four memoized recursive        *)
(* solvers of the two win_probability_analysis.py files, run by their      *)
(* aggregators.                                                            *)
(*                                                                         *)
(* Python floats are modelled as exact rationals <<numerator,              *)
(* denominator>> in lowest terms; rounding is outside the model.           *)
(* A recursive Python call is a frame pushed on `stack`; the frame on top  *)
(* is the call that is running.                                            *)
(***************************************************************************)
EXTENDS Integers, Sequences, FiniteSets

(***************************************************************************)
(* Bounds of the model.                                                    *)
(***************************************************************************)
\* card face values are 1..MaxCard
MaxCard == 3
\* a configured deck holds 3..MaxDeckLen cards
MaxDeckLen == 5

VARIABLES
    variant,          \* 1 = one_player_blackjack, 2 = two_player_blackjack
    solver,           \* "theoretical" or "ai": which aggregator is run
    deck_copy,        \* BlackJack.deck_copy: the configured deck
    blackjack_num,    \* BlackJack.blackjack_num
    dealer_limit,     \* BlackJack.dealer_limit (one-player engine only)
    player_agent,     \* the player's policy oracle (ai solvers)
    dealer_agent,     \* the dealer's policy oracle (two-player ai solver)
    previous,         \* the aggregator calls that returned before this one:
                      \* their solver and agents
    pc,               \* position of the aggregator
    initial_states,   \* list of (game, probability) of the aggregator
    idx,              \* 1-based position of the aggregator's for loop
    record,           \* the memo table: key -> tuple of probabilities
    stack,            \* frames of the running solver calls
    totals,           \* the aggregator's running totals, one per slot
    last_return,      \* the most recent return of a solver call
    first_seen,       \* key -> the first game state a solver was called on
    queried,          \* the oracle queries, in order: the game state of the
                      \* call, its key in record and the state array given
                      \* to the oracle
    episode           \* one play-out of the training or evaluation loop:
                      \* its game, the loop's local variables and the
                      \* update_weights calls made so far

vars == <<variant, solver, deck_copy, blackjack_num, dealer_limit,
          player_agent, dealer_agent, previous, pc, initial_states, idx, record,
          stack, totals, last_return, first_seen, queried, episode>>

\* what no step of an aggregation changes
config_vars == <<variant, solver, deck_copy, blackjack_num, dealer_limit,
                 player_agent, dealer_agent, previous, episode>>

(***************************************************************************)
(* Exact rationals.                                                        *)
(***************************************************************************)
RECURSIVE GCD(_, _)
GCD(a, b) == IF b = 0 THEN a ELSE GCD(b, a % b)

Rat(n, d) == LET g == GCD(n, d) IN <<n \div g, d \div g>>

Zero == Rat(0, 1)
One == Rat(1, 1)
Half == Rat(1, 2)
\* the result of is_game_over on a state that is not terminal
None == <<0, 0>>

RAdd(a, b) == Rat(a[1] * b[2] + b[1] * a[2], a[2] * b[2])
RMul(a, b) == Rat(a[1] * b[1], a[2] * b[2])
RLeq(a, b) == a[1] * b[2] <= b[1] * a[2]
RLess(a, b) == a[1] * b[2] < b[1] * a[2]
\* Python's max(a, b) and min(a, b)
RMax(a, b) == IF RLess(a, b) THEN b ELSE a
RMin(a, b) == IF RLess(b, a) THEN b ELSE a
\* 0.5 * a + 0.5 * b
RAvg(a, b) == RAdd(RMul(Half, a), RMul(Half, b))

(***************************************************************************)
(* Python list helpers.                                                    *)
(***************************************************************************)
RECURSIVE sum(_)
sum(s) == IF s = <<>> THEN 0 ELSE Head(s) + sum(Tail(s))

\* list.count(x)
count(s, x) == Cardinality({i \in 1..Len(s) : s[i] = x})

\* list.remove(x): the first occurrence is removed
remove(s, x) ==
    LET i == CHOOSE j \in 1..Len(s) :
                 s[j] = x /\ \A k \in 1..(j - 1) : s[k] # x
    IN SubSeq(s, 1, i - 1) \o SubSeq(s, i + 1, Len(s))

\* sorted(list), by insertion
RECURSIVE insert(_, _)
insert(s, x) ==
    IF s = <<>> THEN <<x>>
    ELSE IF x <= Head(s) THEN <<x>> \o s
    ELSE <<Head(s)>> \o insert(Tail(s), x)

RECURSIVE sorted(_)
sorted(s) == IF s = <<>> THEN <<>> ELSE insert(sorted(Tail(s)), Head(s))

\* np.unique(list): the distinct values, ascending
RECURSIVE dedup(_)
dedup(s) ==
    IF Len(s) <= 1 THEN s
    ELSE IF s[1] = s[2] THEN dedup(Tail(s))
    ELSE <<Head(s)>> \o dedup(Tail(s))

unique(s) == dedup(sorted(s))

Reverse(s) == [i \in 1..Len(s) |-> s[Len(s) + 1 - i]]


(***************************************************************************)
(* The game engine: BlackJack of blackjack.py.  A game state is the record *)
(* [dealer_hand, player_hand, deck, turn]; deck_copy, blackjack_num and    *)
(* dealer_limit are the same in every copy and are kept once.              *)
(***************************************************************************)
\* BlackJack.reset, given the outcome of np.random.shuffle: the dealer is
\* dealt the last card, the player the two before it
reset(shuffled) ==
    LET n == Len(shuffled)
    IN [deck |-> SubSeq(shuffled, 1, n - 3),
        dealer_hand |-> <<shuffled[n]>>,
        player_hand |-> <<shuffled[n - 1], shuffled[n - 2]>>,
        turn |-> 0]

\* is_game_over of one_player_blackjack with a tie won by the player: the
\* fault C13 excludes
is_game_over_one_tie_wins(game) ==
    IF game.turn = 0 /\ sum(game.player_hand) > blackjack_num
    THEN <<TRUE, Zero>>
    ELSE IF game.turn = 1 /\ sum(game.dealer_hand) > blackjack_num
    THEN <<TRUE, One>>
    ELSE IF game.turn = 1 /\ sum(game.dealer_hand) >= dealer_limit
    THEN IF sum(game.player_hand) >= sum(game.dealer_hand)
         THEN <<TRUE, One>>
         ELSE <<TRUE, Zero>>
    ELSE <<FALSE, None>>

\* is_game_over of one_player_blackjack: <<game_over, result>>
is_game_over_one(game) ==
    IF game.turn = 0 /\ sum(game.player_hand) > blackjack_num
    THEN <<TRUE, Zero>>
    ELSE IF game.turn = 1 /\ sum(game.dealer_hand) > blackjack_num
    THEN <<TRUE, One>>
    ELSE IF game.turn = 1 /\ sum(game.dealer_hand) >= dealer_limit
    THEN IF sum(game.player_hand) > sum(game.dealer_hand)
         THEN <<TRUE, One>>
         ELSE IF sum(game.player_hand) < sum(game.dealer_hand)
         THEN <<TRUE, Zero>>
         ELSE <<TRUE, Zero>>
    ELSE <<FALSE, None>>

\* is_game_over of two_player_blackjack with a tie won by the player: the
\* fault C5 excludes
is_game_over_two_tie_wins(game) ==
    IF game.turn = 0 /\ sum(game.player_hand) > blackjack_num
    THEN <<TRUE, Zero>>
    ELSE IF game.turn = 1 /\ sum(game.dealer_hand) > blackjack_num
    THEN <<TRUE, One>>
    ELSE IF game.turn = 2
    THEN IF sum(game.player_hand) >= sum(game.dealer_hand)
         THEN <<TRUE, One>>
         ELSE <<TRUE, Zero>>
    ELSE <<FALSE, None>>

\* is_game_over of two_player_blackjack: <<game_over, result>>
is_game_over_two(game) ==
    IF game.turn = 0 /\ sum(game.player_hand) > blackjack_num
    THEN <<TRUE, Zero>>
    ELSE IF game.turn = 1 /\ sum(game.dealer_hand) > blackjack_num
    THEN <<TRUE, One>>
    ELSE IF game.turn = 2
    THEN IF sum(game.player_hand) > sum(game.dealer_hand)
         THEN <<TRUE, One>>
         ELSE IF sum(game.player_hand) < sum(game.dealer_hand)
         THEN <<TRUE, Zero>>
         ELSE <<TRUE, Zero>>
    ELSE <<FALSE, None>>

\* is_game_over without the player's bust: a hand over blackjack_num plays
\* on.  The fault C25 excludes
is_game_over_bust_plays_on(game) ==
    IF game.turn = 0 THEN <<FALSE, None>>
    ELSE IF variant = 1 THEN is_game_over_one(game)
    ELSE is_game_over_two(game)

is_game_over(game) ==
    IF variant = 1 THEN is_game_over_one(game) ELSE is_game_over_two(game)

\* BlackJack.get_features: it divides by len(deck)
features_defined(game) == Len(game.deck) > 0

\* get_features without the deck: the two sums alone.  The fault C26
\* excludes
get_features_sums_only(game) ==
    <<Rat(sum(game.dealer_hand), blackjack_num),
      Rat(sum(game.player_hand), blackjack_num)>>

get_features(game) ==
    LET cards == unique(deck_copy)
    IN <<Rat(sum(game.dealer_hand), blackjack_num),
         Rat(sum(game.player_hand), blackjack_num)>>
       \o [i \in 1..Len(cards) |->
             Rat(count(game.deck, cards[i]), Len(game.deck))]

(***************************************************************************)
(* The policy oracle: RLAgent.get_argmax_action_index.  The network is a   *)
(* function of the features alone; an agent of the model hits while one    *)
(* feature stays below a bar.                                              *)
(***************************************************************************)
get_argmax_action_index(agent, features) ==
    IF RLess(features[agent.feature], agent.bar) THEN 1 ELSE 0

\* agent.get_argmax_action_index(state) as the solvers call it, on whatever
\* object they were given: an RLAgent, or a stand-in that answers with a
\* fixed integer
query(agent, features) ==
    IF agent.kind = "RLAgent" THEN get_argmax_action_index(agent, features)
    ELSE agent.action

(***************************************************************************)
(* win_probability_analysis.py: keys and initial states.                   *)
(***************************************************************************)
\* draw_prob(game, card)
draw_prob(game, card) == Rat(count(game.deck, card), Len(game.deck))

\* a key of hand sizes in place of hand sums: the fault C8 excludes
key_of_hand_sizes(game) ==
    <<Len(game.dealer_hand), Len(game.player_hand), sorted(game.deck),
      game.turn>>

\* get_game_state_representation(game_state)
get_game_state_representation(game) ==
    <<sum(game.dealer_hand), sum(game.player_hand), sorted(game.deck),
      game.turn>>

\* itertools.permutations(cards, r=3): the picks of three distinct
\* positions, in lexicographic order of the positions
distinct_positions(t) == t[1] # t[2] /\ t[1] # t[3] /\ t[2] # t[3]

permutations(cards) ==
    LET n == Len(cards)
        picks == [m \in 1..(n * n * n) |->
                    <<((m - 1) \div (n * n)) + 1,
                      (((m - 1) \div n) % n) + 1,
                      ((m - 1) % n) + 1>>]
        kept == SelectSeq(picks, distinct_positions)
    IN [m \in 1..Len(kept) |->
          <<cards[kept[m][1]], cards[kept[m][2]], cards[kept[m][3]]>>]

\* an initial state that keeps the order of the player's cards: the fault
\* C7 excludes
initial_state_unsorted(perm) == perm

\* tuple([dealer_card] + sorted((player_card1, player_card2)))
initial_state_of(perm) == <<perm[1]>> \o sorted(<<perm[2], perm[3]>>)

\* the counting loop over the permutations, in order: a state is inserted
\* with count 0 where it occurs first and counted at each occurrence; the
\* dict is the list of <<initial_state, count>> in insertion order
count_initial_states(perms) ==
    LET states == [m \in 1..Len(perms) |-> initial_state_of(perms[m])]
        inserts(m) == \A q \in 1..(m - 1) : states[q] # states[m]
        inserted == SelectSeq([m \in 1..Len(perms) |-> m], inserts)
    IN [i \in 1..Len(inserted) |->
          <<states[inserted[i]],
            Cardinality({m \in 1..Len(perms) :
                           states[m] = states[inserted[i]]})>>]

\* a divisor that counts equal permutations once: the fault C6 excludes
num_distinct_permutations(perms) ==
    Cardinality({perms[m] : m \in 1..Len(perms)})

\* num_initial_states, the divisor of every count
num_initial_states(perms) == Len(perms)

\* initial_state_probabilities after the normalising loop
initial_state_probabilities(cards) ==
    LET all == permutations(cards)
        counts == count_initial_states(all)
    IN [i \in 1..Len(counts) |->
          <<counts[i][1], Rat(counts[i][2], num_initial_states(all))>>]

\* game_hard_copy: a reset game with its three dealt cards put back
game_hard_copy(shuffled) ==
    LET g == reset(shuffled)
    IN [g EXCEPT !.deck = g.deck \o <<g.dealer_hand[1], g.player_hand[2],
                                      g.player_hand[1]>>,
                 !.dealer_hand = <<>>,
                 !.player_hand = <<>>]

\* a new_game that takes the last three cards off the deck, whichever they
\* are: the fault C17 excludes
new_game_by_position(hard_copy, initial_state) ==
    [hard_copy EXCEPT
        !.dealer_hand = <<initial_state[1]>>,
        !.player_hand = <<initial_state[2], initial_state[3]>>,
        !.deck = SubSeq(@, 1, Len(@) - 3)]

\* new_game for one initial state
new_game(hard_copy, initial_state) ==
    [hard_copy EXCEPT
        !.dealer_hand = <<initial_state[1]>>,
        !.player_hand = <<initial_state[2], initial_state[3]>>,
        !.deck = remove(remove(remove(hard_copy.deck, initial_state[1]),
                               initial_state[2]), initial_state[3])]

\* get_all_initial_states(config), given the outcome of the shuffle
get_all_initial_states(shuffled) ==
    LET probs == initial_state_probabilities(deck_copy)
        hard_copy == game_hard_copy(shuffled)
    IN [i \in 1..Len(probs) |->
          [game |-> new_game(hard_copy, probs[i][1]),
           probability |-> probs[i][2]]]


(***************************************************************************)
(* The solvers.  The four recursive functions share the shape of their     *)
(* code: look the key up, test for a terminal state, explore the stay      *)
(* branch and the hit branches on copies, combine, store, return.          *)
(***************************************************************************)
\* the number of values a solver returns
num_slots ==
    IF solver = "theoretical" THEN (IF variant = 1 THEN 2 ELSE 4)
    ELSE (IF variant = 1 THEN 1 ELSE 3)

\* the totals set to 0 when a call or an aggregation starts
zeros == [i \in 1..num_slots |-> Zero]

\* the frame of a call that has just been made on game
frame_of(game) ==
    [game |-> game, phase |-> "enter", action_index |-> -1,
     stay |-> zeros, hit |-> zeros, cards |-> <<>>, prob |-> Zero]

\* the turn owner's agent: the player's at turn 0, the dealer's at turn 1
\* of the two-player game; the one-player dealer has none
has_oracle(game) ==
    solver = "ai" /\ (game.turn = 0 \/ variant = 2)

agent_of(game) == IF game.turn = 0 THEN player_agent ELSE dealer_agent

\* a stay branch explored at every turn: the fault C3 excludes
explores_stay_always(f) == f.game.turn >= 0

\* whether the call explores the stay branch and the hit branch
explores_stay(f) ==
    IF variant = 1
    THEN f.game.turn = 0 /\ (solver = "theoretical" \/ f.action_index = 0)
    ELSE TRUE

explores_hit(f) ==
    IF variant = 1
    THEN f.game.turn = 1 \/ solver = "theoretical" \/ f.action_index # 0
    ELSE TRUE

\* a stay that leaves the turn where it is: the fault C21 excludes
stay_game_state_keeps_turn(game) == game

\* game_state.copy() with turn += 1
stay_game_state(game) == [game EXCEPT !.turn = @ + 1]

\* a hit that leaves the drawn card in the deck: the fault C16 excludes
hit_game_state_keeps_card(game, card) ==
    IF game.turn = 1
    THEN [game EXCEPT !.dealer_hand = Append(@, card)]
    ELSE [game EXCEPT !.player_hand = Append(@, card)]

\* game_state.copy() with the card appended to the hand of the turn owner
\* and removed from the deck
hit_game_state(game, card) ==
    IF game.turn = 1
    THEN [game EXCEPT !.dealer_hand = Append(@, card),
                      !.deck = remove(@, card)]
    ELSE [game EXCEPT !.player_hand = Append(@, card),
                      !.deck = remove(@, card)]

\* hit_x += card_draw_prob * x, slot by slot
accumulate(hit, prob, value) ==
    [i \in 1..Len(hit) |-> RAdd(hit[i], RMul(prob, value[i]))]

\* an optimal player who averages at the player's turn: the fault C1
\* excludes
total_theoretical_one_average(f) ==
    IF f.game.turn = 1
    THEN <<f.hit[1], f.hit[2]>>
    ELSE <<RAvg(f.stay[1], f.hit[1]), RAvg(f.stay[2], f.hit[2])>>

\* an optimal player who takes the worse action: the fault C12 excludes
total_theoretical_one_worst(f) ==
    IF f.game.turn = 1
    THEN <<f.hit[1], f.hit[2]>>
    ELSE <<RMin(f.stay[1], f.hit[1]), RAvg(f.stay[2], f.hit[2])>>

\* one-player get_theoretical_win_probability: (optimal, random)
total_theoretical_one(f) ==
    IF f.game.turn = 1
    THEN <<f.hit[1], f.hit[2]>>
    ELSE <<RMax(f.stay[1], f.hit[1]), RAvg(f.stay[2], f.hit[2])>>

\* an agent's value taken from the branch its oracle did not choose: the
\* fault C11 excludes
total_ai_one_other_branch(f) ==
    IF f.game.turn = 1 THEN <<f.hit[1]>>
    ELSE IF f.action_index = 0 THEN <<f.hit[1]>>
    ELSE <<f.stay[1]>>

\* one-player get_ai_win_probability: the agent's win probability
total_ai_one(f) ==
    IF f.game.turn = 1 THEN <<f.hit[1]>>
    ELSE IF f.action_index = 0 THEN <<f.stay[1]>>
    ELSE <<f.hit[1]>>

\* an optimal dealer who maximises the player's chances: the fault C2
\* excludes
total_theoretical_two_dealer_max(f) ==
    IF f.game.turn = 1
    THEN <<RMax(f.stay[1], f.hit[1]), RAvg(f.stay[2], f.hit[2]),
           RMax(f.stay[3], f.hit[3]), RAvg(f.stay[4], f.hit[4])>>
    ELSE <<RMax(f.stay[1], f.hit[1]), RMax(f.stay[2], f.hit[2]),
           RAvg(f.stay[3], f.hit[3]), RAvg(f.stay[4], f.hit[4])>>

\* a random player who still averages over stay and hit at the dealer's
\* turn: the fault C24 excludes
total_theoretical_two_player_at_dealer_turn(f) ==
    IF f.game.turn = 1
    THEN <<RMin(f.stay[1], f.hit[1]), RAvg(f.stay[2], f.hit[2]),
           RAvg(f.stay[3], f.hit[3]), RAvg(f.stay[4], f.hit[4])>>
    ELSE <<RMax(f.stay[1], f.hit[1]), RMax(f.stay[2], f.hit[2]),
           RAvg(f.stay[3], f.hit[3]), RAvg(f.stay[4], f.hit[4])>>

\* an optimal player who takes the worse action: the fault C27 excludes
total_theoretical_two_player_min(f) ==
    IF f.game.turn = 1
    THEN <<RMin(f.stay[1], f.hit[1]), RAvg(f.stay[2], f.hit[2]),
           RMin(f.stay[3], f.hit[3]), RAvg(f.stay[4], f.hit[4])>>
    ELSE <<RMin(f.stay[1], f.hit[1]), RMin(f.stay[2], f.hit[2]),
           RAvg(f.stay[3], f.hit[3]), RAvg(f.stay[4], f.hit[4])>>

\* the dealer's min and average written to each other's slots: the fault
\* C28 excludes
total_theoretical_two_dealer_slots_swapped(f) ==
    IF f.game.turn = 1
    THEN <<RAvg(f.stay[1], f.hit[1]), RMin(f.stay[2], f.hit[2]),
           RAvg(f.stay[3], f.hit[3]), RMin(f.stay[4], f.hit[4])>>
    ELSE <<RMax(f.stay[1], f.hit[1]), RMax(f.stay[2], f.hit[2]),
           RAvg(f.stay[3], f.hit[3]), RAvg(f.stay[4], f.hit[4])>>

\* two-player get_theoretical_win_probability: (opod, oprd, rpod, rprd)
total_theoretical_two(f) ==
    IF f.game.turn = 1
    THEN <<RMin(f.stay[1], f.hit[1]), RAvg(f.stay[2], f.hit[2]),
           RMin(f.stay[3], f.hit[3]), RAvg(f.stay[4], f.hit[4])>>
    ELSE <<RMax(f.stay[1], f.hit[1]), RMax(f.stay[2], f.hit[2]),
           RAvg(f.stay[3], f.hit[3]), RAvg(f.stay[4], f.hit[4])>>

\* policy slots that take the better branch for their owner whatever the
\* oracle chose: the fault C10 excludes
total_ai_two_best_branch(f) ==
    IF f.game.turn = 1
    THEN <<RMin(f.stay[1], f.hit[1]), RAvg(f.stay[2], f.hit[2]),
           RMin(f.stay[3], f.hit[3])>>
    ELSE <<RMax(f.stay[1], f.hit[1]), RMax(f.stay[2], f.hit[2]),
           RAvg(f.stay[3], f.hit[3])>>

\* every slot follows the oracle of the turn owner, the slots of a random
\* opponent included: the fault C23 excludes
total_ai_two_oracle_in_random_slots(f) ==
    IF f.action_index = 0 THEN f.stay ELSE f.hit

\* two-player get_ai_win_probability: (apad, aprd, rpad)
total_ai_two(f) ==
    IF f.game.turn = 1
    THEN IF f.action_index = 0
         THEN <<f.stay[1], RAvg(f.stay[2], f.hit[2]), f.stay[3]>>
         ELSE <<f.hit[1], RAvg(f.stay[2], f.hit[2]), f.hit[3]>>
    ELSE IF f.action_index = 0
         THEN <<f.stay[1], f.stay[2], RAvg(f.stay[3], f.hit[3])>>
         ELSE <<f.hit[1], f.hit[2], RAvg(f.stay[3], f.hit[3])>>

total_of(f) ==
    IF solver = "theoretical"
    THEN (IF variant = 1 THEN total_theoretical_one(f)
          ELSE total_theoretical_two(f))
    ELSE (IF variant = 1 THEN total_ai_one(f) ELSE total_ai_two(f))

\* a terminal tuple that carries the result in its first slot only: the
\* fault C4 excludes
terminal_tuple_first_slot(result) ==
    [i \in 1..num_slots |-> IF i = 1 THEN result ELSE Zero]

\* `return result,result,...` of a terminal state
terminal_tuple(result) == [i \in 1..num_slots |-> result]

\* a store that drops the other entries: the fault C9 excludes
store_alone(rec, key, value) == [k \in {key} |-> value]

\* a store that is left out: the fault C19 excludes
store_nothing(rec, key, value) == rec

\* record[game_state_representation] = value
store(rec, key, value) ==
    [k \in DOMAIN rec \cup {key} |-> IF k = key THEN value ELSE rec[k]]


(***************************************************************************)
(* Configurations.                                                         *)
(***************************************************************************)
\* every deck composition of 3..MaxDeckLen cards that holds a card value at
\* most twice, as the shipped deck [1,2,3,4]*2 does; as an ascending list
SortedDecks ==
    {d \in UNION {[1..n -> 1..MaxCard] : n \in 3..MaxDeckLen} :
        /\ d = sorted(d)
        /\ \A c \in 1..MaxCard : count(d, c) <= 2}

\* the odd positions of a list, then the even ones: <<1, 1, 2, 2>> becomes
\* <<1, 2, 1, 2>>
Riffle(s) ==
    LET odd == (Len(s) + 1) \div 2
    IN [i \in 1..Len(s) |-> IF i <= odd THEN s[2 * i - 1]
                            ELSE s[2 * (i - odd)]]

\* the lists config['game']['deck'] of the model: each composition
\* ascending, descending and riffled
DeckLists == UNION {{d, Reverse(d), Riffle(d)} : d \in SortedDecks}

\* the outcomes of np.random.shuffle that the model explores
Shuffles(cards) == {cards, Reverse(cards)}

\* config['game']['blackjack_num']: the shipped configuration has cards
\* 1..4 and blackjack_num 8, twice the highest card; the model also takes
\* one above the highest card
BlackjackNums == {MaxCard + 1, 2 * MaxCard}
\* config['game']['dealer_limit']: two below blackjack_num, as shipped
DealerLimit(bn) == bn - 2

\* the agents: one never hits, one hits below two thirds of blackjack_num
Bars == {Zero, Rat(2, 3)}
PlayerAgents ==
    {[kind |-> "RLAgent", feature |-> 2, bar |-> b, action |-> -1] :
        b \in Bars}
DealerAgents ==
    {[kind |-> "RLAgent", feature |-> 1, bar |-> b, action |-> -1] :
        b \in Bars}
NoAgent == [kind |-> "none", feature |-> 0, bar |-> Zero, action |-> -1]

\* no play-out has been started; -1 stands for a local variable of the loop
\* that has not been assigned (action_index) or holds None
\* (last_action_index)
NoEpisode ==
    [loop |-> "none",
     game |-> [dealer_hand |-> <<>>, player_hand |-> <<>>, deck |-> <<>>,
               turn |-> 0],
     current_game_features |-> <<>>,
     last_observed_game_features |-> <<>>,
     action_index |-> -1,
     last_action_index |-> -1,
     decisions |-> <<>>,
     updates |-> <<>>,
     raised |-> "none"]

InitWith(decks) ==
    /\ variant \in {1, 2}
    /\ solver \in {"theoretical", "ai"}
    /\ deck_copy \in decks
    /\ blackjack_num \in BlackjackNums
    /\ dealer_limit = IF variant = 1 THEN DealerLimit(blackjack_num) ELSE 0
    /\ player_agent \in IF solver = "ai" THEN PlayerAgents ELSE {NoAgent}
    /\ dealer_agent \in IF solver = "ai" /\ variant = 2 THEN DealerAgents
                        ELSE {NoAgent}
    /\ previous = <<>>
    /\ pc = "start"
    /\ initial_states = <<>>
    /\ idx = 0
    /\ record = <<>>
    /\ stack = <<>>
    /\ totals = <<>>
    /\ last_return = [game |-> <<>>, value |-> <<>>, how |-> "none"]
    /\ first_seen = <<>>
    /\ queried = <<>>
    /\ episode = NoEpisode

Init == InitWith(SortedDecks)

(***************************************************************************)
(* The aggregators: get_total_theoretical_win_probability and              *)
(* get_total_ai_win_probability.                                           *)
(***************************************************************************)
\* first_seen once a solver has been called on game
seen_with(game) ==
    LET key == get_game_state_representation(game)
    IN IF key \in DOMAIN first_seen THEN first_seen
       ELSE [k \in DOMAIN first_seen \cup {key} |->
               IF k = key THEN game ELSE first_seen[k]]

\* an aggregator that goes on with the record of the call before it: the
\* fault C18 excludes
StartKeepingRecord ==
    /\ pc = "start"
    /\ Len(deck_copy) >= 3
    /\ \E shuffled \in Shuffles(deck_copy) :
           initial_states' = get_all_initial_states(shuffled)
    /\ totals' = zeros
    /\ idx' = 1
    /\ pc' = "loop"
    /\ UNCHANGED <<config_vars, record, stack, last_return, first_seen,
                   queried>>

\* initial_states = get_all_initial_states(config); record = {}; totals = 0
Start ==
    /\ pc = "start"
    /\ Len(deck_copy) >= 3
    /\ \E shuffled \in Shuffles(deck_copy) :
           initial_states' = get_all_initial_states(shuffled)
    /\ record' = <<>>
    /\ totals' = zeros
    /\ idx' = 1
    /\ pc' = "loop"
    /\ UNCHANGED <<config_vars, stack, last_return, first_seen, queried>>

\* game.reset() inside get_all_initial_states pops three cards: with fewer
\* in the deck the IndexError ends the aggregation before it has a list
ConfigError ==
    /\ pc = "start"
    /\ Len(deck_copy) < 3
    /\ pc' = "error"
    /\ UNCHANGED <<config_vars, initial_states, idx, record, stack, totals,
                   last_return, first_seen, queried>>

\* for game_state,probability in initial_states: call the solver
CallInitial ==
    /\ pc = "loop"
    /\ stack = <<>>
    /\ idx <= Len(initial_states)
    /\ stack' = Append(stack, frame_of(initial_states[idx].game))
    /\ first_seen' = seen_with(initial_states[idx].game)
    /\ UNCHANGED <<config_vars, pc, initial_states, idx, record, totals,
                   last_return, queried>>

\* return the totals
Finish ==
    /\ pc = "loop"
    /\ stack = <<>>
    /\ idx > Len(initial_states)
    /\ pc' = "done"
    /\ UNCHANGED <<config_vars, initial_states, idx, record, stack, totals,
                   last_return, first_seen, queried>>

\* the caller calls an aggregator again on the same game configuration,
\* with whatever agents: train.py calls get_total_ai_win_probability before
\* training and every interval episodes, main.py calls
\* get_total_theoretical_win_probability after it.  The locals of the call
\* that returned are what it left behind.  One call after another is
\* followed; a third would start as the second does.
CallAgain ==
    /\ pc = "done"
    /\ previous = <<>>
    /\ previous' = Append(previous, [solver |-> solver,
                                     player_agent |-> player_agent,
                                     dealer_agent |-> dealer_agent])
    /\ solver' \in {"theoretical", "ai"}
    /\ player_agent' \in IF solver' = "ai" THEN PlayerAgents ELSE {NoAgent}
    /\ dealer_agent' \in IF solver' = "ai" /\ variant = 2 THEN DealerAgents
                         ELSE {NoAgent}
    /\ pc' = "start"
    /\ last_return' = [game |-> <<>>, value |-> <<>>, how |-> "none"]
    /\ first_seen' = <<>>
    /\ queried' = <<>>
    /\ UNCHANGED <<variant, deck_copy, blackjack_num, dealer_limit,
                   initial_states, idx, record, stack, totals, episode>>

(***************************************************************************)
(* The running call: the frame on top of the stack.                        *)
(***************************************************************************)
top == stack[Len(stack)]

running == pc = "loop" /\ stack # <<>>

\* a branch explored on the caller's own state, which keeps the turn or the
\* card of the branch when the call returns: the fault C20 excludes
resume_in_place(caller, value) ==
    IF caller.phase = "stay_wait"
    THEN [caller EXCEPT
             !.game = stay_game_state(caller.game),
             !.stay = value,
             !.phase = IF explores_hit(caller) THEN "hit" ELSE "store",
             !.cards = IF explores_hit(caller) THEN unique(caller.game.deck)
                       ELSE <<>>]
    ELSE LET cards == unique(caller.game.deck)
         IN [caller EXCEPT
                !.game = hit_game_state(
                             caller.game,
                             cards[Len(cards) - Len(caller.cards)]),
                !.hit = accumulate(caller.hit, caller.prob, value),
                !.phase = "hit"]

\* the caller takes the returned value: the aggregator adds
\* probability * value to its totals; a solver call sets its stay values or
\* adds card_draw_prob * value to its hit values
resume(caller, value) ==
    IF caller.phase = "stay_wait"
    THEN [caller EXCEPT
             !.stay = value,
             !.phase = IF explores_hit(caller) THEN "hit" ELSE "store",
             !.cards = IF explores_hit(caller) THEN unique(caller.game.deck)
                       ELSE <<>>]
    ELSE [caller EXCEPT
             !.hit = accumulate(caller.hit, caller.prob, value),
             !.phase = "hit"]

return(value, how) ==
    LET rest == SubSeq(stack, 1, Len(stack) - 1)
    IN /\ last_return' = [game |-> top.game, value |-> value, how |-> how]
       /\ IF rest = <<>>
          THEN /\ stack' = <<>>
               /\ totals' = accumulate(totals,
                                       initial_states[idx].probability, value)
               /\ idx' = idx + 1
          ELSE /\ stack' = [rest EXCEPT
                               ![Len(rest)] = resume(rest[Len(rest)], value)]
               /\ UNCHANGED <<totals, idx>>

\* if game_state_representation in record: return record[...]
Lookup ==
    /\ running
    /\ top.phase = "enter"
    /\ get_game_state_representation(top.game) \in DOMAIN record
    /\ return(record[get_game_state_representation(top.game)], "memo")
    /\ UNCHANGED <<config_vars, pc, initial_states, record, first_seen,
                   queried>>

\* if game_over: return result,...
Terminal ==
    /\ running
    /\ top.phase = "enter"
    /\ get_game_state_representation(top.game) \notin DOMAIN record
    /\ is_game_over(top.game)[1]
    /\ return(terminal_tuple(is_game_over(top.game)[2]), "terminal")
    /\ UNCHANGED <<config_vars, pc, initial_states, record, first_seen,
                   queried>>

\* the state is expanded: the totals are set to 0 and, in an ai solver at
\* a turn that has an agent, the agent is asked for its action
expandable ==
    /\ running
    /\ top.phase = "enter"
    /\ get_game_state_representation(top.game) \notin DOMAIN record
    /\ ~is_game_over(top.game)[1]

Expand ==
    /\ expandable
    /\ has_oracle(top.game) => features_defined(top.game)
    /\ has_oracle(top.game) => agent_of(top.game).kind # "raises"
    /\ LET a == IF has_oracle(top.game)
                THEN query(agent_of(top.game), get_features(top.game))
                ELSE -1
           f == [top EXCEPT !.action_index = a]
       IN /\ stack' = [stack EXCEPT
                 ![Len(stack)] =
                     IF explores_stay(f) THEN [f EXCEPT !.phase = "stay"]
                     ELSE [f EXCEPT !.phase = "hit",
                                    !.cards = unique(f.game.deck)]]
          /\ queried' = IF has_oracle(top.game)
                        THEN Append(queried,
                                    [game |-> top.game,
                                     key |-> get_game_state_representation(
                                                 top.game),
                                     state |-> get_features(top.game)])
                        ELSE queried
    /\ UNCHANGED <<config_vars, pc, initial_states, idx, record, totals,
                   last_return, first_seen>>

\* get_features divides by len(deck) = 0: the ZeroDivisionError ends the
\* aggregation
FeaturesError ==
    /\ expandable
    /\ has_oracle(top.game)
    /\ ~features_defined(top.game)
    /\ pc' = "error"
    /\ UNCHANGED <<config_vars, initial_states, idx, record, stack, totals,
                   last_return, first_seen, queried>>

\* the oracle raises: the exception ends the aggregation
OracleRaises ==
    /\ expandable
    /\ has_oracle(top.game)
    /\ features_defined(top.game)
    /\ agent_of(top.game).kind = "raises"
    /\ pc' = "error"
    /\ UNCHANGED <<config_vars, initial_states, idx, record, stack, totals,
                   last_return, first_seen, queried>>

\* the stay branch: the solver is called on a copy with turn += 1
CallStay ==
    /\ running
    /\ top.phase = "stay"
    /\ LET waiting == [stack EXCEPT ![Len(stack)].phase = "stay_wait"]
           game == stay_game_state(top.game)
       IN /\ stack' = Append(waiting, frame_of(game))
          /\ first_seen' = seen_with(game)
    /\ UNCHANGED <<config_vars, pc, initial_states, idx, record, totals,
                   last_return, queried>>

\* one round of `for card in np.unique(game_state.deck)`: the solver is
\* called on a copy that has drawn the card
CallHit ==
    /\ running
    /\ top.phase = "hit"
    /\ top.cards # <<>>
    /\ LET card == Head(top.cards)
           waiting == [stack EXCEPT
                          ![Len(stack)].phase = "hit_wait",
                          ![Len(stack)].prob = draw_prob(top.game, card),
                          ![Len(stack)].cards = Tail(top.cards)]
           game == hit_game_state(top.game, card)
       IN /\ stack' = Append(waiting, frame_of(game))
          /\ first_seen' = seen_with(game)
    /\ UNCHANGED <<config_vars, pc, initial_states, idx, record, totals,
                   last_return, queried>>

\* the branches are combined, the result is stored in record and returned
Store ==
    /\ running
    /\ top.phase = "store" \/ (top.phase = "hit" /\ top.cards = <<>>)
    /\ record' = store(record, get_game_state_representation(top.game),
                       total_of(top))
    /\ return(total_of(top), "computed")
    /\ UNCHANGED <<config_vars, pc, initial_states, first_seen, queried>>

Next ==
    \/ Start
    \/ CallInitial
    \/ Finish
    \/ Lookup
    \/ Terminal
    \/ Expand
    \/ FeaturesError
    \/ CallStay
    \/ CallHit
    \/ Store

Spec == Init /\ [][Next]_vars

\* the policy-driven solvers alone
InitPolicy == Init /\ solver = "ai"

SpecPolicy == InitPolicy /\ [][Next]_vars

\* the configured deck listed in descending order: permutations(deck_copy)
\* and the deals of reset then run through the cards the other way round
DescendingDecks == {Reverse(d) : d \in SortedDecks}

InitDescending == InitWith(DescendingDecks)

SpecDescending == InitDescending /\ [][Next]_vars

\* the enumerator alone, on every deck list
InitEnum == InitWith(DeckLists) /\ solver = "theoretical"

NextEnum == Start

SpecEnum == InitEnum /\ [][NextEnum]_vars


(***************************************************************************)
(* Reading the outcome of a call.                                          *)
(***************************************************************************)
\* the call that returned last computed and stored its value
computed == pc = "loop" /\ last_return.how = "computed"

\* the game state of the call that returned last, and what record holds
\* for it
last_game == last_return.game
last_stored == record[get_game_state_representation(last_game)]

\* the value of a finished call on game is known: it is in record, or the
\* state is terminal
known(game) ==
    \/ get_game_state_representation(game) \in DOMAIN record
    \/ is_game_over(game)[1]

value_of(game) ==
    IF get_game_state_representation(game) \in DOMAIN record
    THEN record[get_game_state_representation(game)]
    ELSE terminal_tuple(is_game_over(game)[2])

\* the states one draw away from game, one per distinct card of the deck
hit_states(game) ==
    {hit_game_state(game, unique(game.deck)[i]) :
        i \in 1..Len(unique(game.deck))}

\* the sum over the distinct cards of the deck of
\* (count of the card / deck size) * value of the state after the draw
RECURSIVE weighted_sum(_, _)
weighted_sum(game, cards) ==
    IF cards = <<>> THEN zeros
    ELSE accumulate(weighted_sum(game, Tail(cards)),
                    Rat(count(game.deck, Head(cards)), Len(game.deck)),
                    value_of(hit_game_state(game, Head(cards))))

hit_value(game) == weighted_sum(game, unique(game.deck))

stay_value(game) == value_of(stay_game_state(game))

branches_known(game) ==
    /\ known(stay_game_state(game))
    /\ \A g \in hit_states(game) : known(g)

(***************************************************************************)
(* C1: at a player turn (turn 0) both analytical solvers store, in every   *)
(* slot where the player is optimal, the maximum of the stay value and the *)
(* hit value, and in every slot where the player is random                 *)
(* 0.5 * stay + 0.5 * hit; stay is the value of the state with the turn    *)
(* advanced, hit the draw-probability-weighted sum over the distinct cards *)
(* of the deck.                                                            *)
(***************************************************************************)
C1_PlayerTurnMaxAndAverage ==
    (computed /\ solver = "theoretical" /\ last_game.turn = 0) =>
        /\ branches_known(last_game)
        /\ last_return.value = last_stored
        /\ LET s == stay_value(last_game)
               h == hit_value(last_game)
           IN IF variant = 1
              THEN last_stored = <<RMax(s[1], h[1]), RAvg(s[2], h[2])>>
              ELSE last_stored = <<RMax(s[1], h[1]), RMax(s[2], h[2]),
                                   RAvg(s[3], h[3]), RAvg(s[4], h[4])>>

\* a two-player player turn where hitting is strictly better than staying
\* for the optimal player, against either dealer
C1_Witness ==
    /\ computed /\ solver = "theoretical" /\ variant = 2
    /\ last_game.turn = 0
    /\ RLess(stay_value(last_game)[1], hit_value(last_game)[1])
    /\ RLess(Zero, stay_value(last_game)[2])
    /\ RLess(stay_value(last_game)[2], hit_value(last_game)[2])

(***************************************************************************)
(* C2: at a dealer turn (turn 1) the two-player analytical solver stores   *)
(* the minimum of the stay and hit values in the slots where the dealer is *)
(* optimal (opod, rpod) and 0.5 * stay + 0.5 * hit in the slots where the  *)
(* dealer is random (oprd, rprd).                                          *)
(***************************************************************************)
C2_DealerTurnMinAndAverage ==
    (computed /\ solver = "theoretical" /\ variant = 2
        /\ last_game.turn = 1) =>
        /\ branches_known(last_game)
        /\ last_return.value = last_stored
        /\ LET s == stay_value(last_game)
               h == hit_value(last_game)
           IN last_stored = <<RMin(s[1], h[1]), RAvg(s[2], h[2]),
                              RMin(s[3], h[3]), RAvg(s[4], h[4])>>

\* a dealer turn where hitting is strictly better for the dealer
C2_Witness ==
    /\ computed /\ solver = "theoretical" /\ variant = 2
    /\ last_game.turn = 1
    /\ RLess(hit_value(last_game)[1], stay_value(last_game)[1])
    /\ RLess(Zero, hit_value(last_game)[1])

(***************************************************************************)
(* C3: at a dealer turn (turn 1) the one-player solvers explore only the   *)
(* hit branch: the value stored is the draw-probability-weighted sum of    *)
(* the values after each distinct card, no call is made on a stay copy of  *)
(* a dealer-turn state, and the analytical solver's optimal slot equals    *)
(* its random slot.                                                        *)
(***************************************************************************)
C3_OnePlayerDealerHitsOnly ==
    variant = 1 =>
        /\ \A i \in 1..Len(stack) :
              /\ stack[i].game.turn \in {0, 1}
              /\ stack[i].game.turn = 1 =>
                    stack[i].phase \notin {"stay", "stay_wait"}
        /\ \A k \in DOMAIN first_seen : k[4] \in {0, 1}
        /\ (computed /\ last_game.turn = 1) =>
              /\ \A g \in hit_states(last_game) : known(g)
              /\ last_return.value = last_stored
              /\ last_stored = hit_value(last_game)
              /\ solver = "theoretical" => last_stored[1] = last_stored[2]

\* a one-player dealer turn whose value is a proper mixture
C3_Witness ==
    /\ computed /\ variant = 1 /\ last_game.turn = 1
    /\ RLess(Zero, last_stored[1]) /\ RLess(last_stored[1], One)
    /\ Len(unique(last_game.deck)) > 1

(***************************************************************************)
(* C4: called on a terminal state every solver returns at once a tuple     *)
(* whose slots all equal the result of is_game_over: the state is not      *)
(* expanded, not stored and not shown to an oracle; a player over          *)
(* blackjack_num on the player's turn gives the all-zero tuple.            *)
(***************************************************************************)
C4_TerminalReturnsResult ==
    /\ (pc = "loop" /\ last_return.how # "none"
            /\ is_game_over(last_game)[1]) =>
          /\ last_return.how = "terminal"
          /\ Len(last_return.value) = num_slots
          /\ \A i \in 1..num_slots :
                last_return.value[i] = is_game_over(last_game)[2]
          /\ (last_game.turn = 0
                 /\ sum(last_game.player_hand) > blackjack_num) =>
                \A i \in 1..num_slots : last_return.value[i] = Zero
    /\ \A i \in 1..Len(stack) :
          stack[i].phase # "enter" => ~is_game_over(stack[i].game)[1]
    /\ \A i \in 1..Len(queried) : ~is_game_over(queried[i].game)[1]
    /\ \A k \in DOMAIN record : ~is_game_over(first_seen[k])[1]

\* a policy-driven solver returned from a state where the player is bust
\* on the player's turn, after at least one oracle query
C4_Witness ==
    /\ pc = "loop" /\ last_return.how = "terminal" /\ solver = "ai"
    /\ last_game.turn = 0
    /\ sum(last_game.player_hand) > blackjack_num
    /\ queried # <<>>

(***************************************************************************)
(* C5: the terminal result is 1.0 only when the dealer is over             *)
(* blackjack_num on the dealer's turn or, at the showdown, the player's    *)
(* sum is strictly greater than the dealer's; a player bust on the         *)
(* player's turn, a smaller player sum and every tie give 0.0; the result  *)
(* is never anything but 0.0 or 1.0.  The showdown is turn 1 with the      *)
(* dealer at dealer_limit or more in the one-player engine and turn 2 in   *)
(* the two-player engine.                                                  *)
(***************************************************************************)
dealer_bust(game) ==
    game.turn = 1 /\ sum(game.dealer_hand) > blackjack_num

player_bust(game) ==
    game.turn = 0 /\ sum(game.player_hand) > blackjack_num

showdown(game) ==
    IF variant = 1
    THEN game.turn = 1 /\ sum(game.dealer_hand) >= dealer_limit
    ELSE game.turn = 2

C5_TerminalResult ==
    \A i \in 1..Len(stack) :
        LET game == stack[i].game
            over == is_game_over(game)
        IN /\ over[1] <=>
                (player_bust(game) \/ dealer_bust(game) \/ showdown(game))
           /\ over[1] =>
                /\ over[2] \in {Zero, One}
                /\ over[2] = One <=>
                      \/ dealer_bust(game)
                      \/ /\ showdown(game)
                         /\ sum(game.player_hand) > sum(game.dealer_hand)
                /\ player_bust(game) => over[2] = Zero
                /\ (showdown(game) /\ ~dealer_bust(game)
                       /\ sum(game.player_hand) <= sum(game.dealer_hand))
                      => over[2] = Zero
           /\ ~over[1] => over[2] = None

\* a tie at the showdown of the two-player game
C5_Witness ==
    /\ running /\ variant = 2 /\ top.game.turn = 2
    /\ sum(top.game.player_hand) = sum(top.game.dealer_hand)
    /\ is_game_over(top.game) = <<TRUE, Zero>>

(***************************************************************************)
(* The deals of a deck, card by card.                                      *)
(***************************************************************************)
\* the ordered deals of three physically distinct cards: triples of
\* distinct positions of deck_copy (dealer, first and second player card)
Deals ==
    {t \in (1..Len(deck_copy)) \X (1..Len(deck_copy)) \X (1..Len(deck_copy)) :
        t[1] # t[2] /\ t[1] # t[3] /\ t[2] # t[3]}

\* the canonical triple of a deal: dealer card, then the two player cards
\* in ascending order
canonical(t) ==
    LET d == deck_copy[t[1]]
        a == deck_copy[t[2]]
        b == deck_copy[t[3]]
    IN IF a <= b THEN <<d, a, b>> ELSE <<d, b, a>>

CanonicalTriples == {canonical(t) : t \in Deals}

\* the canonical triple of an entry of initial_states
triple_of(entry) ==
    <<entry.game.dealer_hand[1], entry.game.player_hand[1],
      entry.game.player_hand[2]>>

RECURSIVE total_probability(_)
total_probability(entries) ==
    IF entries = <<>> THEN Zero
    ELSE RAdd(Head(entries).probability, total_probability(Tail(entries)))

RECURSIVE total_count(_)
total_count(counts) ==
    IF counts = <<>> THEN 0 ELSE Head(counts)[2] + total_count(Tail(counts))

enumerated == pc = "loop" /\ idx = 1 /\ stack = <<>>

(***************************************************************************)
(* C6: the probabilities returned by get_all_initial_states sum to 1: the  *)
(* occurrence counts over all canonical triples add up to the total        *)
(* D(D-1)(D-2) by which each of them is divided.                           *)
(***************************************************************************)
C6_ProbabilitiesSumToOne ==
    enumerated =>
        LET D == Len(deck_copy)
            all == permutations(deck_copy)
        IN /\ total_probability(initial_states) = One
           /\ total_count(count_initial_states(all)) = D * (D - 1) * (D - 2)
           /\ num_initial_states(all) = D * (D - 1) * (D - 2)

\* a deck with a repeated card, listed out of order, whose deals have
\* different probabilities
C6_Witness ==
    /\ enumerated
    /\ deck_copy # sorted(deck_copy)
    /\ Len(unique(deck_copy)) < Len(deck_copy)
    /\ \E i, j \in 1..Len(initial_states) :
          initial_states[i].probability # initial_states[j].probability

(***************************************************************************)
(* C7: get_all_initial_states returns exactly one entry for every          *)
(* canonical triple (dealer card, the two player cards sorted) that can be *)
(* dealt, and the entry's probability is the number of ordered deals of    *)
(* three physically distinct cards that map to the triple, divided by the  *)
(* number of all such deals.                                               *)
(***************************************************************************)
C7_OneEntryPerCanonicalTriple ==
    enumerated =>
        /\ \A i \in 1..Len(initial_states) :
              /\ triple_of(initial_states[i]) \in CanonicalTriples
              /\ initial_states[i].game.player_hand[1]
                    <= initial_states[i].game.player_hand[2]
              /\ Len(initial_states[i].game.dealer_hand) = 1
              /\ Len(initial_states[i].game.player_hand) = 2
        /\ \A tr \in CanonicalTriples :
              /\ Cardinality({i \in 1..Len(initial_states) :
                                 triple_of(initial_states[i]) = tr}) = 1
              /\ \A i \in 1..Len(initial_states) :
                    triple_of(initial_states[i]) = tr =>
                       initial_states[i].probability =
                          Rat(Cardinality({t \in Deals : canonical(t) = tr}),
                              Cardinality(Deals))

\* a triple that can be dealt in more than two ways, with the player's
\* cards different: both orders and several physical cards map to it
C7_Witness ==
    /\ enumerated
    /\ \E i \in 1..Len(initial_states) :
          /\ initial_states[i].game.player_hand[1]
                < initial_states[i].game.player_hand[2]
          /\ Cardinality({t \in Deals :
                canonical(t) = triple_of(initial_states[i])}) > 2

(***************************************************************************)
(* The solvers run on an empty record: the recursion of the four           *)
(* functions with no entry ever found by the lookup.  A call that reaches  *)
(* get_features on an empty deck raises; Raised stands for that outcome.   *)
(***************************************************************************)
Raised == <<>>

RECURSIVE solve(_), solve_hits(_, _)
solve(game) ==
    IF is_game_over(game)[1] THEN terminal_tuple(is_game_over(game)[2])
    ELSE IF has_oracle(game) /\ ~features_defined(game) THEN Raised
    ELSE IF has_oracle(game) /\ agent_of(game).kind = "raises" THEN Raised
    ELSE LET a == IF has_oracle(game)
                  THEN query(agent_of(game), get_features(game))
                  ELSE -1
             f == [frame_of(game) EXCEPT !.action_index = a]
             s == IF explores_stay(f) THEN solve(stay_game_state(game))
                  ELSE zeros
             h == IF s = Raised THEN Raised
                  ELSE IF explores_hit(f)
                  THEN solve_hits(game, unique(game.deck))
                  ELSE zeros
         IN IF s = Raised \/ h = Raised THEN Raised
            ELSE total_of([f EXCEPT !.stay = s, !.hit = h])

\* the for loop over the distinct cards, last card first
solve_hits(game, cards) ==
    IF cards = <<>> THEN zeros
    ELSE LET n == Len(cards)
             before == solve_hits(game, SubSeq(cards, 1, n - 1))
             value == IF before = Raised THEN Raised
                      ELSE solve(hit_game_state(game, cards[n]))
         IN IF before = Raised \/ value = Raised THEN Raised
            ELSE accumulate(before, draw_prob(game, cards[n]), value)

(***************************************************************************)
(* C8: two game states with the same canonical key (dealer sum, player     *)
(* sum, sorted deck, turn) are outcome-equivalent: is_game_over gives the  *)
(* same pair on both, the stay successors and the hit successors for each  *)
(* card have pairwise equal keys, and each solver, run on an empty record, *)
(* returns the same tuple for both.  It is checked for every state a       *)
(* solver is called on against the first state called with the same key.   *)
(***************************************************************************)
C8_EqualKeysAreEquivalent ==
    (running /\ top.phase = "enter") =>
        LET g == top.game
            f == first_seen[get_game_state_representation(g)]
        IN /\ get_game_state_representation(f)
                 = get_game_state_representation(g)
           /\ is_game_over(g) = is_game_over(f)
           /\ get_game_state_representation(stay_game_state(g))
                 = get_game_state_representation(stay_game_state(f))
           /\ unique(g.deck) = unique(f.deck)
           /\ \A i \in 1..Len(unique(g.deck)) :
                 /\ draw_prob(g, unique(g.deck)[i])
                       = draw_prob(f, unique(g.deck)[i])
                 /\ get_game_state_representation(
                        hit_game_state(g, unique(g.deck)[i]))
                       = get_game_state_representation(
                            hit_game_state(f, unique(g.deck)[i]))
           /\ features_defined(g) => get_features(g) = get_features(f)
           /\ solve(g) = solve(f)

\* a call on a non-terminal state whose key was first seen with hands of
\* other cards
C8_Witness ==
    /\ running /\ top.phase = "enter"
    /\ ~is_game_over(top.game)[1]
    /\ LET f == first_seen[get_game_state_representation(top.game)]
       IN /\ sorted(f.player_hand) # sorted(top.game.player_hand)
          /\ Len(f.player_hand) # Len(top.game.player_hand)
          /\ solve(top.game) \notin {Raised, zeros}

(***************************************************************************)
(* C9: memoization is exact.  Whatever record holds when a call is made    *)
(* within an aggregation, the call returns the value the solver returns    *)
(* on an empty record, and an entry of record, once stored, is never       *)
(* removed nor changed during the aggregation.                             *)
(***************************************************************************)
C9_MemoizationIsExact ==
    /\ [](pc = "loop" /\ last_return.how # "none" =>
             last_return.value = solve(last_game))
    /\ [][\A k \in DOMAIN record :
             k \in DOMAIN record' /\ record'[k] = record[k]]_vars

\* a value that is neither all 0 nor all 1 was taken from record by a call
\* made two levels or more below the aggregator, on a state other than the
\* one the entry was computed for
C9_Witness ==
    /\ pc = "loop" /\ last_return.how = "memo"
    /\ Len(stack) >= 2
    /\ first_seen[get_game_state_representation(last_game)] # last_game
    /\ \E i \in 1..num_slots :
          RLess(Zero, last_return.value[i]) /\ RLess(last_return.value[i], One)

(***************************************************************************)
(* C10: at a state whose turn owner has an oracle, the policy-driven       *)
(* solvers give the slots where that owner follows the policy the value of *)
(* the chosen branch alone (stay if the action index is 0, hit otherwise), *)
(* and the slot where the same owner is random (aprd at a dealer turn,     *)
(* rpad at a player turn) 0.5 * stay + 0.5 * hit.                          *)
(***************************************************************************)
chosen_action(game) == query(agent_of(game), get_features(game))

C10_PolicySlotsFollowChosenBranch ==
    (computed /\ solver = "ai" /\ has_oracle(last_game)) =>
        /\ features_defined(last_game)
        /\ last_return.value = last_stored
        /\ chosen_action(last_game) \in {0, 1}
        /\ IF variant = 1
           THEN IF chosen_action(last_game) = 0
                THEN /\ known(stay_game_state(last_game))
                     /\ last_stored = <<stay_value(last_game)[1]>>
                ELSE /\ \A g \in hit_states(last_game) : known(g)
                     /\ last_stored = <<hit_value(last_game)[1]>>
           ELSE /\ branches_known(last_game)
                /\ LET s == stay_value(last_game)
                       h == hit_value(last_game)
                       c == IF chosen_action(last_game) = 0 THEN s ELSE h
                   IN IF last_game.turn = 1
                      THEN last_stored = <<c[1], RAvg(s[2], h[2]), c[3]>>
                      ELSE last_stored = <<c[1], c[2], RAvg(s[3], h[3])>>

\* a two-player dealer turn where the dealer's oracle hits although
\* staying and hitting differ in every slot
C10_Witness ==
    /\ computed /\ solver = "ai" /\ variant = 2
    /\ last_game.turn = 1
    /\ chosen_action(last_game) = 1
    /\ \A i \in 1..3 : stay_value(last_game)[i] # hit_value(last_game)[i]

(***************************************************************************)
(* The analytical solver of the variant run on an empty record, whatever   *)
(* solver the aggregation runs: get_theoretical_win_probability.           *)
(***************************************************************************)
theoretical_slots == IF variant = 1 THEN 2 ELSE 4

RECURSIVE theoretical(_), theoretical_hits(_, _)
theoretical(game) ==
    IF is_game_over(game)[1]
    THEN [i \in 1..theoretical_slots |-> is_game_over(game)[2]]
    ELSE LET none == [i \in 1..theoretical_slots |-> Zero]
             s == IF variant = 2 \/ game.turn = 0
                  THEN theoretical(stay_game_state(game))
                  ELSE none
             h == theoretical_hits(game, unique(game.deck))
             f == [game |-> game, stay |-> s, hit |-> h]
         IN IF variant = 1 THEN total_theoretical_one(f)
            ELSE total_theoretical_two(f)

theoretical_hits(game, cards) ==
    IF cards = <<>> THEN [i \in 1..theoretical_slots |-> Zero]
    ELSE LET n == Len(cards)
         IN accumulate(theoretical_hits(game, SubSeq(cards, 1, n - 1)),
                       draw_prob(game, cards[n]),
                       theoretical(hit_game_state(game, cards[n])))

\* the oracles reproduce the optimal action at game and at every state
\* the policy-vs-policy value of game depends on: the player's oracle
\* picks an action attaining the max, the dealer's an action attaining the
\* min, of the optimal(-vs-optimal) slot
RECURSIVE follows_optimal(_)
follows_optimal(game) ==
    IF is_game_over(game)[1] THEN TRUE
    ELSE LET hits == \A g \in hit_states(game) : follows_optimal(g)
         IN IF ~has_oracle(game) THEN hits
            ELSE /\ features_defined(game)
                 /\ LET s == theoretical(stay_game_state(game))[1]
                        h == theoretical_hits(game, unique(game.deck))[1]
                        best == IF game.turn = 0 THEN RMax(s, h) ELSE RMin(s, h)
                    IN IF chosen_action(game) = 0
                       THEN s = best /\ follows_optimal(stay_game_state(game))
                       ELSE h = best /\ hits

(***************************************************************************)
(* C11: when the oracles reproduce the optimal action (the player's an     *)
(* action attaining the max, the dealer's an action attaining the min of   *)
(* the optimal slot, ties broken either way), the policy-vs-policy value   *)
(* a policy-driven solver returns for a state equals the optimal(-vs-      *)
(* optimal) slot of the analytical solver for that state.                  *)
(***************************************************************************)
C11_OptimalOracleMatchesAnalytical ==
    (pc = "loop" /\ solver = "ai" /\ last_return.how # "none"
        /\ follows_optimal(last_game)) =>
        last_return.value[1] = theoretical(last_game)[1]

\* the value of an initial state of the two-player game, computed under
\* oracles that are optimal, where staying and hitting differ for the
\* player and the value is neither 0 nor 1
C11_Witness ==
    /\ computed /\ solver = "ai" /\ variant = 2
    /\ stack = <<>> /\ last_game.turn = 0
    /\ follows_optimal(last_game)
    /\ theoretical(stay_game_state(last_game))[1]
          # theoretical_hits(last_game, unique(last_game.deck))[1]
    /\ RLess(Zero, last_return.value[1])
    /\ RLess(last_return.value[1], One)

(***************************************************************************)
(* C12: with the dealer's behaviour held fixed, the optimal player's win   *)
(* probability is at least the random player's, for every state the        *)
(* analytical solvers are called on and for the aggregated totals:         *)
(* optimal >= random in the one-player solver, opod >= rpod and            *)
(* oprd >= rprd in the two-player solver.                                  *)
(***************************************************************************)
optimal_at_least_random(value) ==
    IF variant = 1 THEN RLeq(value[2], value[1])
    ELSE RLeq(value[3], value[1]) /\ RLeq(value[4], value[2])

C12_OptimalAtLeastRandom ==
    (solver = "theoretical" /\ pc \in {"loop", "done"}) =>
        /\ last_return.how # "none" =>
              optimal_at_least_random(last_return.value)
        /\ optimal_at_least_random(totals)

\* a finished two-player aggregation in which the optimal player is
\* strictly better than the random player against either dealer
C12_Witness ==
    /\ pc = "done" /\ solver = "theoretical" /\ variant = 2
    /\ RLess(totals[3], totals[1])
    /\ RLess(totals[4], totals[2])

(***************************************************************************)
(* The configuration of one_player_blackjack/main.py, run by               *)
(* get_total_theoretical_win_probability.                                  *)
(***************************************************************************)
ShippedDeck == <<1, 2, 3, 4, 1, 2, 3, 4>>
ShippedBlackjackNum == 8
ShippedDealerLimit == 6

InitShipped ==
    /\ variant = 1
    /\ solver = "theoretical"
    /\ deck_copy = ShippedDeck
    /\ blackjack_num = ShippedBlackjackNum
    /\ dealer_limit = ShippedDealerLimit
    /\ player_agent = NoAgent
    /\ dealer_agent = NoAgent
    /\ previous = <<>>
    /\ pc = "start"
    /\ initial_states = <<>>
    /\ idx = 0
    /\ record = <<>>
    /\ stack = <<>>
    /\ totals = <<>>
    /\ last_return = [game |-> <<>>, value |-> <<>>, how |-> "none"]
    /\ first_seen = <<>>
    /\ queried = <<>>
    /\ episode = NoEpisode

NextShipped ==
    \/ Start
    \/ CallInitial
    \/ Finish
    \/ Lookup
    \/ Terminal
    \/ Expand
    \/ CallStay
    \/ CallHit
    \/ Store

SpecShipped == InitShipped /\ [][NextShipped]_vars

\* the reference value of two_player_blackjack/main.py,
\* 0.42380952380952375, as the exact rational it rounds
PinnedOptimal == Rat(89, 210)

(***************************************************************************)
(* C13: for deck [1,2,3,4,1,2,3,4], bust threshold 8 and dealer threshold  *)
(* 6, get_total_theoretical_win_probability returns the total optimal win *)
(* probability 89/210 (0.42380952380952375) and a total random win         *)
(* probability strictly below it.                                          *)
(***************************************************************************)
C13_ShippedOptimalIsPinned ==
    pc = "done" =>
        /\ totals[1] = PinnedOptimal
        /\ RLess(totals[2], totals[1])

\* the aggregation of the shipped configuration has finished, over all of
\* its initial states
C13_Witness ==
    /\ pc = "done"
    /\ deck_copy = ShippedDeck
    /\ blackjack_num = ShippedBlackjackNum
    /\ dealer_limit = ShippedDealerLimit
    /\ idx = Len(initial_states) + 1
    /\ Len(initial_states) > 30

(***************************************************************************)
(* Any configuration and any oracle: decks too small to deal from, a bust  *)
(* threshold of 0, and oracles other than RLAgent, as the solvers take     *)
(* whatever config and agent objects their caller passes.                  *)
(***************************************************************************)
AnyDecks ==
    {d \in UNION {[1..n -> 1..MaxCard] : n \in 0..(MaxDeckLen - 1)} :
        /\ d = sorted(d)
        /\ \A c \in 1..MaxCard : count(d, c) <= 2}

AnyBlackjackNums == {0, 2 * MaxCard}

\* an oracle that answers 2 at every state, and one that raises
StandInAgents ==
    {[kind |-> "answers", feature |-> 0, bar |-> Zero, action |-> 2],
     [kind |-> "raises", feature |-> 0, bar |-> Zero, action |-> -1]}

InitAny ==
    /\ variant \in {1, 2}
    /\ solver \in {"theoretical", "ai"}
    /\ deck_copy \in AnyDecks
    /\ blackjack_num \in AnyBlackjackNums
    /\ dealer_limit = IF variant = 1 THEN DealerLimit(blackjack_num) ELSE 0
    /\ player_agent \in IF solver = "ai"
                        THEN PlayerAgents \cup StandInAgents
                        ELSE {NoAgent}
    /\ dealer_agent \in IF solver = "ai" /\ variant = 2
                        THEN DealerAgents \cup StandInAgents
                        ELSE {NoAgent}
    /\ previous = <<>>
    /\ pc = "start"
    /\ initial_states = <<>>
    /\ idx = 0
    /\ record = <<>>
    /\ stack = <<>>
    /\ totals = <<>>
    /\ last_return = [game |-> <<>>, value |-> <<>>, how |-> "none"]
    /\ first_seen = <<>>
    /\ queried = <<>>
    /\ episode = NoEpisode

NextAny ==
    \/ Start
    \/ ConfigError
    \/ CallInitial
    \/ Finish
    \/ Lookup
    \/ Terminal
    \/ Expand
    \/ FeaturesError
    \/ OracleRaises
    \/ CallStay
    \/ CallHit
    \/ Store

SpecAny == InitAny /\ [][NextAny]_vars

(***************************************************************************)
(* C14: an oracle answer outside {0, 1} is fatal: no call goes on past     *)
(* such an answer, so no value is computed, stored or returned for a state *)
(* at which the oracle's answer was treated as stay or as hit.             *)
(***************************************************************************)
C14_InvalidActionIsFatal ==
    /\ \A i \in 1..Len(stack) :
          (has_oracle(stack[i].game) /\ stack[i].phase # "enter") =>
              stack[i].action_index \in {0, 1}
    /\ (computed /\ has_oracle(last_game)) =>
          chosen_action(last_game) \in {0, 1}

(***************************************************************************)
(* C15: a configuration error is fatal when the initial states are         *)
(* enumerated: with a deck of fewer than three cards or a bust threshold   *)
(* that is not positive, get_all_initial_states fails and no list of       *)
(* initial states is returned, so no solver call is made.                  *)
(***************************************************************************)
C15_ConfigurationErrorIsFatal ==
    (Len(deck_copy) < 3 \/ blackjack_num <= 0) =>
        /\ pc \in {"start", "error"}
        /\ initial_states = <<>>
        /\ stack = <<>>

(***************************************************************************)
(* Playing a game: BlackJack.deal and BlackJack.apply_action.              *)
(***************************************************************************)
\* deal: the top card, the last element of deck, goes to the turn owner
deal(game) ==
    LET n == Len(game.deck)
    IN IF game.turn = 0
       THEN [game EXCEPT !.player_hand = Append(@, game.deck[n]),
                         !.deck = SubSeq(@, 1, n - 1)]
       ELSE [game EXCEPT !.dealer_hand = Append(@, game.deck[n]),
                         !.deck = SubSeq(@, 1, n - 1)]

\* apply_action with a stay that leaves the turn where it is: the fault
\* C29 excludes
apply_action_stay_keeps_turn(game, action_index) ==
    IF action_index = 1 THEN deal(game) ELSE game

\* apply_action: 1 deals; anything else passes the turn, in the one-player
\* game only when it is the player's
apply_action(game, action_index) ==
    IF action_index = 1 THEN deal(game)
    ELSE IF variant = 1
    THEN (IF game.turn = 0 THEN [game EXCEPT !.turn = @ + 1] ELSE game)
    ELSE [game EXCEPT !.turn = @ + 1]

\* deck, dealer hand and player hand together are the configured deck
conserved(game) ==
    sorted(game.deck \o game.dealer_hand \o game.player_hand)
        = sorted(deck_copy)

is_prefix(a, b) == Len(a) <= Len(b) /\ SubSeq(b, 1, Len(a)) = a

\* from game before to game after cards have only moved from the deck to
\* the end of a hand
only_dealt(before, after) ==
    /\ is_prefix(before.dealer_hand, after.dealer_hand)
    /\ is_prefix(before.player_hand, after.player_hand)
    /\ Len(after.deck) <= Len(before.deck)
    /\ \A c \in 1..MaxCard : count(after.deck, c) <= count(before.deck, c)

(***************************************************************************)
(* C16: card conservation.  In every game state produced by reset, by      *)
(* apply_action, by the enumerator or by a solver branch the remaining     *)
(* deck, the dealer hand and the player hand together are the configured   *)
(* deck as a multiset; from a state to its successor cards only move from  *)
(* the deck to a hand and the deck never grows.  (Every call in progress   *)
(* was the innermost one when it was made, so each call is compared with   *)
(* its caller as it is entered.)                                           *)
(***************************************************************************)
C16_CardsAreConserved ==
    /\ (pc = "start" /\ Len(deck_copy) >= 3) =>
          \A shuffled \in Shuffles(deck_copy) :
              /\ conserved(reset(shuffled))
              /\ conserved(game_hard_copy(shuffled))
    /\ enumerated =>
          \A i \in 1..Len(initial_states) :
              conserved(initial_states[i].game)
    /\ (running /\ top.phase = "enter") =>
          /\ conserved(top.game)
          /\ Len(stack) > 1 =>
                only_dealt(stack[Len(stack) - 1].game, top.game)
    /\ (running /\ top.phase = "enter" /\ ~is_game_over(top.game)[1]) =>
          /\ conserved(apply_action(top.game, 0))
          /\ only_dealt(top.game, apply_action(top.game, 0))
          /\ top.game.deck # <<>> =>
                /\ conserved(apply_action(top.game, 1))
                /\ only_dealt(top.game, apply_action(top.game, 1))

\* a solver call two draws below an initial state, one by the player and
\* one by the dealer
C16_Witness ==
    /\ running
    /\ Len(top.game.player_hand) = 3
    /\ Len(top.game.dealer_hand) = 2
    /\ Len(stack) >= 4
    /\ conserved(top.game)

(***************************************************************************)
(* An aggregation as a function of the outcome of the shuffle: the totals  *)
(* over the initial states, each solved on an empty record.                *)
(***************************************************************************)
RECURSIVE aggregate(_)
aggregate(entries) ==
    IF entries = <<>> THEN zeros
    ELSE LET n == Len(entries)
             before == aggregate(SubSeq(entries, 1, n - 1))
             value == IF before = Raised THEN Raised
                      ELSE solve(entries[n].game)
         IN IF before = Raised \/ value = Raised THEN Raised
            ELSE accumulate(before, entries[n].probability, value)

(***************************************************************************)
(* C17: the solvers are deterministic.  An aggregation of a configuration  *)
(* (and oracles) ends with the same totals, or fails alike, whatever the   *)
(* shuffle inside get_all_initial_states did (under each outcome the       *)
(* aggregation ends as the record-free aggregation of one and the same     *)
(* outcome does, the reversed deck, whose initial states have their deck   *)
(* lists in another order), and what a solver call reads from the deck     *)
(* list of its state is the same for the list in the opposite order.       *)
(***************************************************************************)
\* everything a solver call reads from game_state.deck: the key, the
\* terminal check, the unique cards, the features, each draw probability
\* and the key of each branch
reads_alike(game, other) ==
    /\ get_game_state_representation(other)
          = get_game_state_representation(game)
    /\ is_game_over(other) = is_game_over(game)
    /\ unique(other.deck) = unique(game.deck)
    /\ features_defined(other) = features_defined(game)
    /\ features_defined(game) => get_features(other) = get_features(game)
    /\ \A i \in 1..Len(unique(game.deck)) :
          LET card == unique(game.deck)[i]
          IN /\ draw_prob(other, card) = draw_prob(game, card)
             /\ get_game_state_representation(hit_game_state(other, card))
                   = get_game_state_representation(
                         hit_game_state(game, card))
C17_ResultIndependentOfShuffle ==
    /\ pc \in {"done", "error"} =>
          aggregate(get_all_initial_states(Reverse(deck_copy)))
             = IF pc = "done" THEN totals ELSE Raised
    /\ (running /\ top.phase = "enter") =>
          reads_alike(top.game, [top.game EXCEPT !.deck = Reverse(@)])

\* a finished aggregation whose initial states have decks in another order
\* under the other outcome of the shuffle, with totals that are not 0 or 1
C17_Witness ==
    /\ pc = "done"
    /\ \E shuffled \in Shuffles(deck_copy) :
          /\ get_all_initial_states(shuffled) # initial_states
          /\ aggregate(get_all_initial_states(shuffled)) = totals
    /\ RLess(Zero, totals[1]) /\ RLess(totals[1], One)

(***************************************************************************)
(* Aggregator calls in a row, as main.py's run makes them.                 *)
(***************************************************************************)
NextTwice ==
    \/ Start
    \/ CallInitial
    \/ Finish
    \/ CallAgain
    \/ Lookup
    \/ Terminal
    \/ Expand
    \/ FeaturesError
    \/ CallStay
    \/ CallHit
    \/ Store

\* the decks that leave at most one card after the deal
ShortDecks == {d \in SortedDecks : Len(d) < MaxDeckLen}

InitTwice == InitWith(ShortDecks)

SpecTwice == InitTwice /\ [][NextTwice]_vars

(***************************************************************************)
(* C18: each aggregator call starts from an empty record and shares it     *)
(* across its initial states; no entry written during one call is read by  *)
(* another: every entry of record was written for a state called during    *)
(* this call, and the totals are those of the configuration and policy run *)
(* on their own, whatever ran before.                                      *)
(***************************************************************************)
C18_RecordIsPerAggregation ==
    /\ (pc = "loop" /\ idx = 1 /\ stack = <<>>) => record = <<>>
    /\ pc = "loop" => DOMAIN record \subseteq DOMAIN first_seen
    /\ (pc = "loop" /\ last_return.how = "memo") =>
          last_return.value = solve(last_game)
    /\ pc = "done" => totals = aggregate(initial_states)

\* a policy-driven aggregation that follows one with another solver or
\* policy and has read an entry of its own record at its second initial
\* state or later
C18_Witness ==
    /\ previous # <<>>
    /\ solver = "ai"
    /\ previous[1] # [solver |-> solver, player_agent |-> player_agent,
                      dealer_agent |-> dealer_agent]
    /\ pc = "loop" /\ idx >= 2
    /\ last_return.how = "memo"
    /\ record # <<>>

(***************************************************************************)
(* C19: within an aggregation of a policy-driven solver the turn owner's   *)
(* oracle is queried exactly once for each distinct non-terminal canonical *)
(* state expanded at a policy-owned turn: never for a terminal state,      *)
(* never again once the state is in record, and always with the feature    *)
(* projection of the state (normalized sums, deck fractions), not with its *)
(* canonical key.                                                          *)
(***************************************************************************)
queries_for(key) == {i \in 1..Len(queried) : queried[i].key = key}

\* the query made last: a state its turn owner's agent is asked about, with
\* the features of get_features
well_formed(query_made) ==
    /\ has_oracle(query_made.game)
    /\ ~is_game_over(query_made.game)[1]
    /\ query_made.key = get_game_state_representation(query_made.game)
    /\ query_made.state = get_features(query_made.game)
    /\ Len(query_made.state) = 2 + Len(unique(deck_copy))
    /\ query_made.state[1]
          = Rat(sum(query_made.game.dealer_hand), blackjack_num)
    /\ query_made.state[2]
          = Rat(sum(query_made.game.player_hand), blackjack_num)
    /\ \A c \in 1..Len(unique(deck_copy)) :
          query_made.state[2 + c]
             = Rat(count(query_made.game.deck, unique(deck_copy)[c]),
                   Len(query_made.game.deck))

\* queries are only ever appended, so every query is the last one in the
\* state that follows it
C19_OracleQueriedOncePerState ==
    /\ queried # <<>> => well_formed(queried[Len(queried)])
    /\ (running /\ top.phase # "enter" /\ has_oracle(top.game)) =>
          Cardinality(queries_for(
              get_game_state_representation(top.game))) = 1
    /\ (pc = "loop" /\ last_return.how = "memo" /\ has_oracle(last_game)) =>
          Cardinality(queries_for(
              get_game_state_representation(last_game))) = 1
    /\ (pc = "loop" /\ last_return.how = "terminal") =>
          queries_for(get_game_state_representation(last_game)) = {}

\* a two-player call returned from record at a policy-owned state that had
\* been queried for, after both oracles were queried
C19_Witness ==
    /\ pc = "loop" /\ solver = "ai" /\ variant = 2
    /\ last_return.how = "memo"
    /\ has_oracle(last_game)
    /\ Cardinality(queries_for(
           get_game_state_representation(last_game))) = 1
    /\ \E i, j \in 1..Len(queried) :
          queried[i].game.turn = 0 /\ queried[j].game.turn = 1

(***************************************************************************)
(* C20: copy-on-branch.  A solver call never changes the game state passed *)
(* to it: dealer hand, player hand, deck and turn of every call in         *)
(* progress are the same after each step (is_game_over, get_features, a    *)
(* branch called, a branch returned) as before it, the state a call        *)
(* returns for is the one it was called with, and the initial states are   *)
(* left as enumerated.  Every branch is explored on a copy of its own: a   *)
(* card appended or a turn advanced in one branch shows neither in the     *)
(* parent nor in a sibling, which is again the parent's state with one     *)
(* action applied.                                                         *)
(***************************************************************************)
branch_of(parent, child) ==
    \/ child = stay_game_state(parent)
    \/ \E card \in {parent.deck[i] : i \in 1..Len(parent.deck)} :
          child = hit_game_state(parent, card)

C20_CopyOnBranch ==
    [][ /\ \A i \in 1..Len(stack) :
              i <= Len(stack') => stack'[i].game = stack[i].game
        /\ (pc = "loop" /\ pc' = "loop") => initial_states' = initial_states
        /\ (stack # <<>> /\ Len(stack') = Len(stack) + 1) =>
              /\ branch_of(top.game, stack'[Len(stack')].game)
              /\ stack'[Len(stack')].game # top.game
        /\ Len(stack') = Len(stack) - 1 =>
              /\ last_return'.game = top.game
              /\ IF stack' = <<>>
                 THEN last_return'.game = initial_states'[idx].game
                 ELSE branch_of(stack'[Len(stack')].game, last_return'.game)
        /\ (stack = <<>> /\ stack' # <<>>) =>
              stack'[1].game = initial_states'[idx].game
      ]_vars

\* a player's state whose stay branch and a first hit branch have returned is
\* unchanged while a later hit branch runs on its own copy
C20_Witness ==
    /\ running /\ Len(stack) >= 2
    /\ LET parent == stack[Len(stack) - 1]
       IN /\ parent.phase = "hit_wait"
          /\ parent.game.turn = 0
          /\ explores_stay(parent)
          /\ Len(parent.cards) + 2 <= Len(unique(parent.game.deck))
          /\ branch_of(parent.game, top.game)
          /\ Len(top.game.player_hand) = Len(parent.game.player_hand) + 1
          /\ Len(top.game.deck) = Len(parent.game.deck) - 1
          /\ top.game.turn = parent.game.turn

\* the highest turn value: 1 in the one-player game, 2 in the two-player
max_turn == IF variant = 1 THEN 1 ELSE 2

\* what bounds the calls below a state: the cards left in the deck and the
\* turn advances left
measure(game) == Len(game.deck) + (max_turn - game.turn)

\* a call is made on a state with one card fewer than, or a turn above,
\* its caller's
descends(parent, child) ==
    \/ /\ Len(child.deck) = Len(parent.deck) - 1
       /\ child.turn = parent.turn
    \/ /\ Len(child.deck) = Len(parent.deck)
       /\ child.turn = parent.turn + 1

\* how far a call in progress is from its return: it is entered, explores
\* the stay branch, then one hit branch per card left in cards, then
\* stores; a call that waits for a branch is past making it
rank(f) ==
    CASE f.phase = "enter" -> 2 * MaxCard + 5
      [] f.phase = "stay" -> 2 * MaxCard + 4
      [] f.phase = "stay_wait" -> 2 * MaxCard + 3
      [] f.phase = "hit_wait" -> 2 * Len(f.cards) + 2
      [] f.phase = "hit" -> 2 * Len(f.cards) + 1
      [] OTHER -> 0

\* the calls in progress after a step are nearer their returns than those
\* before it: the outermost call that differs has a lower rank, or the
\* innermost call has returned and nothing else has changed
nearer(after, before) ==
    \/ /\ Len(after) < Len(before)
       /\ \A i \in 1..Len(after) : rank(after[i]) = rank(before[i])
    \/ \E i \in 1..Len(before) :
          /\ i <= Len(after)
          /\ rank(after[i]) < rank(before[i])
          /\ \A j \in 1..(i - 1) : rank(after[j]) = rank(before[j])

(***************************************************************************)
(* C21: every solver call terminates.  Each recursive call is made on a    *)
(* state with one card fewer in the deck or a strictly larger turn than    *)
(* its caller's, the turn never decreases and never exceeds 1 (one-player) *)
(* or 2 (two-player), and the nesting depth below an initial state is at   *)
(* most its remaining deck size plus the number of possible turn advances. *)
(* Every step of a call brings the calls in progress nearer their returns  *)
(* in an order that has no infinite descent at a bounded depth, and every  *)
(* return to the aggregator moves it to the next initial state.            *)
(***************************************************************************)
C21_EverySolverCallTerminates ==
    [][ /\ stack # <<>> =>
              /\ top.game.turn \in 0..max_turn
              /\ Len(stack) > 1 =>
                    /\ descends(stack[Len(stack) - 1].game, top.game)
                    /\ measure(top.game)
                          < measure(stack[Len(stack) - 1].game)
              /\ Len(stack) - 1 <= measure(stack[1].game)
              /\ \A i \in 1..Len(stack) : rank(stack[i]) <= 2 * MaxCard + 5
        /\ (running /\ pc' # "error") =>
              /\ nearer(stack', stack)
              /\ stack' = <<>> => idx' = idx + 1
        /\ (pc = "loop" /\ stack = <<>> /\ pc' = "loop") =>
              /\ idx' = idx
              /\ idx <= Len(initial_states)
              /\ Len(stack') = 1
      ]_vars

\* a call nested as deep as the bound allows: every card of the initial
\* state's deck drawn and every turn advance made
C21_Witness ==
    /\ running
    /\ stack[1].game.deck # <<>>
    /\ Len(stack) - 1 = measure(stack[1].game)
    /\ top.game.deck = <<>>
    /\ top.game.turn = max_turn

\* the draw probabilities of the hit branch of game, added up over
\* np.unique(game_state.deck)
RECURSIVE total_draw_prob(_, _)
total_draw_prob(game, cards) ==
    IF cards = <<>> THEN Zero
    ELSE RAdd(draw_prob(game, Head(cards)),
              total_draw_prob(game, Tail(cards)))

(***************************************************************************)
(* C22: a hit is never evaluated from an empty deck.  In every             *)
(* non-terminal state a solver expands from an enumerated initial state    *)
(* the remaining deck holds at least one card, the draw probabilities of   *)
(* the hit branch sum to 1 and the feature projection is defined, so no    *)
(* aggregation ends in the ZeroDivisionError of get_features.              *)
(***************************************************************************)
C22_NoHitFromEmptyDeck ==
    /\ expandable =>
          /\ top.game.deck # <<>>
          /\ total_draw_prob(top.game, unique(top.game.deck)) = One
          /\ features_defined(top.game)
    /\ pc # "error"

(***************************************************************************)
(* The slots of a random opponent, computed without the opponent's oracle: *)
(* aprd from the player's oracle alone, with the dealer staying or hitting *)
(* half of the time each, and rpad from the dealer's oracle alone, with    *)
(* the player doing so.                                                    *)
(***************************************************************************)
RECURSIVE against_random(_, _), against_random_hits(_, _, _)
against_random(game, policy_turn) ==
    IF is_game_over(game)[1] THEN is_game_over(game)[2]
    ELSE LET s == against_random(stay_game_state(game), policy_turn)
             h == against_random_hits(game, unique(game.deck), policy_turn)
         IN IF game.turn # policy_turn THEN RAvg(s, h)
            ELSE IF query(agent_of(game), get_features(game)) = 0 THEN s
            ELSE h

against_random_hits(game, cards, policy_turn) ==
    IF cards = <<>> THEN Zero
    ELSE RAdd(against_random_hits(game, Tail(cards), policy_turn),
              RMul(draw_prob(game, Head(cards)),
                   against_random(hit_game_state(game, Head(cards)),
                                  policy_turn)))

(***************************************************************************)
(* C23: in the two-player policy-driven solver the policy-vs-random slot   *)
(* (aprd) does not depend on the dealer oracle and the random-vs-policy    *)
(* slot (rpad) does not depend on the player oracle: under every pair of   *)
(* oracles the aprd returned for an initial state is the value computed    *)
(* from the player's oracle alone and the rpad the value computed from the *)
(* dealer's oracle alone, so two runs that differ only in the other oracle *)
(* return the same slot.                                                   *)
(***************************************************************************)
C23_RandomSlotsIgnoreOtherOracle ==
    (pc = "loop" /\ variant = 2 /\ solver = "ai" /\ stack = <<>>
        /\ last_return.how # "none") =>
        /\ last_return.value[2] = against_random(last_game, 0)
        /\ last_return.value[3] = against_random(last_game, 1)

\* the value of an initial state where the three slots differ: the dealer's
\* oracle was queried and shows in apad but not in aprd
C23_Witness ==
    /\ pc = "loop" /\ variant = 2 /\ solver = "ai" /\ stack = <<>>
    /\ last_return.how = "computed"
    /\ last_return.value[1] # last_return.value[2]
    /\ last_return.value[1] # last_return.value[3]
    /\ last_return.value[2] # last_return.value[3]
    /\ \E i \in 1..Len(queried) : queried[i].game.turn = 1
    /\ last_return.value[2] = against_random(last_game, 0)

(***************************************************************************)
(* C24: in the two-player solvers the player's strategy no longer matters  *)
(* once it is the dealer's turn.  For every state with turn >= 1 the       *)
(* analytical result has opod = rpod and oprd = rprd and the policy-driven *)
(* result has apad = rpad; for the state reached when the dealer stays     *)
(* (turn 2) all slots of the result are equal.                             *)
(***************************************************************************)
player_no_longer_matters(value) ==
    IF solver = "theoretical"
    THEN value[1] = value[3] /\ value[2] = value[4]
    ELSE value[1] = value[3]

C24_PlayerStrategyIrrelevantAtDealerTurn ==
    (variant = 2 /\ pc = "loop" /\ last_return.how # "none"
        /\ last_game.turn >= 1) =>
        /\ player_no_longer_matters(last_return.value)
        /\ last_game.turn = 2 =>
              \A i \in 1..num_slots :
                  last_return.value[i] = last_return.value[1]

\* the analytical value of a dealer's state where the optimal and the
\* random dealer differ, computed from a stay branch and hit branches
C24_Witness ==
    /\ variant = 2 /\ solver = "theoretical" /\ computed
    /\ last_game.turn = 1
    /\ RLess(last_return.value[1], last_return.value[2])
    /\ RLess(Zero, last_return.value[1])
    /\ last_return.value[1] = last_return.value[3]
    /\ last_return.value[2] = last_return.value[4]


(***************************************************************************)
(* The play-outs: one episode of the training loop (train) or of the       *)
(* evaluation loop (evaluate_agent, evaluate_agents).  Both reset the      *)
(* game and then apply actions until is_game_over; the training loop also  *)
(* keeps the features and actions it trains the agents on.                 *)
(***************************************************************************)
Loops == {"train", "evaluate"}

\* what a play-out leaves alone
solver_vars == <<variant, solver, deck_copy, blackjack_num, dealer_limit,
                 player_agent, dealer_agent, previous, initial_states, idx,
                 record, stack, totals, last_return, first_seen, queried>>

\* an exception leaves the loop: deck.pop() on an empty deck in deal, the
\* division by len(deck) in get_features, action_index read before it was
\* assigned
raises(what) ==
    /\ pc' = "error"
    /\ episode' = [episode EXCEPT !.raised = what]

\* the action of a turn: sampled by exploration or by the random strategy,
\* or the argmax of the agent; the training loop samples with probability
\* exploration_factor whatever the agent says
action_indices(loop, agent, features) ==
    IF loop = "train" \/ agent = NoAgent THEN {0, 1}
    ELSE {query(agent, features)}

\* game.reset() and the assignments before the while loop
Reset(loop, shuffles) ==
    /\ pc = "start"
    /\ Len(deck_copy) >= 3
    /\ loop = "train" /\ variant = 1 => player_agent # NoAgent
    /\ \E shuffled \in shuffles :
         LET game == reset(shuffled)
         IN IF loop = "train" /\ ~features_defined(game)
            THEN /\ pc' = "error"
                 /\ episode' = [NoEpisode EXCEPT !.loop = loop,
                                                 !.game = game,
                                                 !.raised = "get_features"]
            ELSE /\ pc' = "play"
                 /\ episode' =
                      [NoEpisode EXCEPT
                         !.loop = loop,
                         !.game = game,
                         !.current_game_features =
                             IF loop = "train" THEN get_features(game)
                             ELSE <<>>,
                         !.last_observed_game_features =
                             IF loop = "train" THEN get_features(game)
                             ELSE <<>>]
    /\ UNCHANGED solver_vars

\* one pass of the while loop on the player's turn
PlayerActs ==
    /\ pc = "play"
    /\ ~is_game_over(episode.game)[1]
    /\ episode.game.turn = 0
    /\ LET game == episode.game
           train == episode.loop = "train"
           asks == ~train /\ player_agent # NoAgent
       IN IF asks /\ ~features_defined(game) THEN raises("get_features")
          ELSE LET observed == IF train THEN episode.current_game_features
                               ELSE IF asks THEN get_features(game)
                               ELSE <<>>
               IN \E action_index \in
                      action_indices(episode.loop, player_agent, observed) :
                    IF action_index = 1 /\ game.deck = <<>>
                    THEN raises("deal")
                    ELSE
                    LET after == apply_action(game, action_index)
                        hit_on == /\ train
                                  /\ ~is_game_over(after)[1]
                                  /\ action_index = 1
                    IN IF hit_on /\ ~features_defined(after)
                       THEN raises("get_features")
                       ELSE
                       /\ pc' = "play"
                       /\ episode' =
                            [episode EXCEPT
                               !.game = after,
                               !.last_observed_game_features =
                                   IF train
                                   THEN episode.current_game_features
                                   ELSE @,
                               !.action_index = action_index,
                               !.last_action_index = action_index,
                               !.decisions =
                                   Append(@, [turn |-> 0,
                                              features |-> observed,
                                              action_index |-> action_index]),
                               !.updates =
                                   IF hit_on /\ player_agent # NoAgent
                                   THEN Append(@,
                                          [agent |-> "player",
                                           features |->
                                             episode.current_game_features,
                                           action_index |-> action_index,
                                           bootstrapped |-> TRUE,
                                           target |-> None])
                                   ELSE @,
                               !.current_game_features =
                                   IF hit_on THEN get_features(after)
                                   ELSE @]
    /\ UNCHANGED solver_vars

\* one pass of the while loop on the dealer's turn.  The one-player loops
\* call apply_action(1) and assign nothing else; the two-player loops
\* choose the dealer's action as they choose the player's
DealerActs ==
    /\ pc = "play"
    /\ ~is_game_over(episode.game)[1]
    /\ episode.game.turn >= 1
    /\ LET game == episode.game
           train == episode.loop = "train"
           asks == variant = 2 /\ ~train /\ dealer_agent # NoAgent
       IN IF asks /\ ~features_defined(game) THEN raises("get_features")
          ELSE LET observed == IF variant = 1 THEN <<>>
                               ELSE IF train
                               THEN episode.current_game_features
                               ELSE IF asks THEN get_features(game)
                               ELSE <<>>
               IN \E action_index \in
                      IF variant = 1 THEN {1}
                      ELSE action_indices(episode.loop, dealer_agent,
                                          observed) :
                    IF action_index = 1 /\ game.deck = <<>>
                    THEN raises("deal")
                    ELSE
                    LET after == apply_action(game, action_index)
                        goes_on == /\ variant = 2
                                   /\ train
                                   /\ ~is_game_over(after)[1]
                    IN IF goes_on /\ ~features_defined(after)
                       THEN raises("get_features")
                       ELSE
                       /\ pc' = "play"
                       /\ episode' =
                            [episode EXCEPT
                               !.game = after,
                               !.action_index =
                                   IF variant = 1 THEN @ ELSE action_index,
                               !.decisions =
                                   IF variant = 1 THEN @
                                   ELSE Append(@,
                                          [turn |-> 1,
                                           features |-> observed,
                                           action_index |-> action_index]),
                               !.updates =
                                   IF goes_on /\ dealer_agent # NoAgent
                                   THEN Append(@,
                                          [agent |-> "dealer",
                                           features |->
                                             episode.current_game_features,
                                           action_index |-> action_index,
                                           bootstrapped |-> TRUE,
                                           target |-> None])
                                   ELSE @,
                               !.current_game_features =
                                   IF goes_on THEN get_features(after)
                                   ELSE @]
    /\ UNCHANGED solver_vars

\* An update_weights call is recorded with its agent, features, action and
\* target.  A target bootstrapped inside the loop is the discounted
\* get_max_action_value of the network at the new features, which the
\* model does not compute: it is recorded as None.

\* (result + 1) % 2: the result from the dealer's side
flipped(result) == IF result = One THEN Zero ELSE One

\* the update of the dealer agent after the while loop of the two-player
\* training loop
dealer_final_update(result) ==
    [agent |-> "dealer",
     features |-> episode.current_game_features,
     action_index |-> episode.action_index,
     bootstrapped |-> FALSE,
     target |-> flipped(result)]

\* the update of the player agent after the while loop
player_final_update(result) ==
    [agent |-> "player",
     features |-> episode.last_observed_game_features,
     action_index |-> episode.last_action_index,
     bootstrapped |-> FALSE,
     target |-> result]

\* the while loop is left: the training loops update the agents on the
\* result, the dealer agent first
EndEpisode ==
    /\ pc = "play"
    /\ is_game_over(episode.game)[1]
    /\ LET result == is_game_over(episode.game)[2]
           train == episode.loop = "train"
           dealer_trained == train /\ variant = 2 /\ dealer_agent # NoAgent
           player_trained == train /\ player_agent # NoAgent
       IN IF dealer_trained /\ episode.action_index = -1
          THEN raises("action_index")
          ELSE /\ pc' = "over"
               /\ episode' =
                    [episode EXCEPT
                       !.updates =
                           @ \o (IF dealer_trained
                                 THEN <<dealer_final_update(result)>>
                                 ELSE <<>>)
                             \o (IF player_trained
                                 THEN <<player_final_update(result)>>
                                 ELSE <<>>)]
    /\ UNCHANGED solver_vars

\* a play-out of any configuration of the model, with any pairing of
\* agents and random strategies
InitPlay ==
    /\ variant \in {1, 2}
    /\ solver = "ai"
    /\ deck_copy \in SortedDecks
    /\ blackjack_num \in BlackjackNums
    /\ dealer_limit = IF variant = 1 THEN DealerLimit(blackjack_num) ELSE 0
    /\ player_agent \in PlayerAgents \cup {NoAgent}
    /\ dealer_agent \in IF variant = 2 THEN DealerAgents \cup {NoAgent}
                        ELSE {NoAgent}
    /\ previous = <<>>
    /\ pc = "start"
    /\ initial_states = <<>>
    /\ idx = 0
    /\ record = <<>>
    /\ stack = <<>>
    /\ totals = <<>>
    /\ last_return = [game |-> <<>>, value |-> <<>>, how |-> "none"]
    /\ first_seen = <<>>
    /\ queried = <<>>
    /\ episode = NoEpisode

NextPlay ==
    \/ \E loop \in Loops : Reset(loop, Shuffles(deck_copy))
    \/ PlayerActs
    \/ DealerActs
    \/ EndEpisode

SpecPlay == InitPlay /\ [][NextPlay]_vars

\* the solvers and the play-outs of one configuration
NextGame ==
    \/ Next
    \/ NextPlay

SpecGame == Init /\ [][NextGame]_vars


(***************************************************************************)
(* C25: a bust hand never plays on and never wins.  In every state the     *)
(* play-outs reach and in every state a solver is called on, turn >= 1     *)
(* implies that the player's sum is at most blackjack_num and, in the      *)
(* two-player game, turn 2 implies that the dealer's sum is at most        *)
(* blackjack_num; so the sums are compared only for two hands that are     *)
(* not bust, and the result is never 1.0 for a player over blackjack_num.  *)
(***************************************************************************)
non_bust_on(game) ==
    /\ game.turn >= 1 => sum(game.player_hand) <= blackjack_num
    /\ (variant = 2 /\ game.turn = 2) =>
           sum(game.dealer_hand) <= blackjack_num

\* is_game_over reaches the comparison of the two sums
compared(game) ==
    IF variant = 1
    THEN /\ game.turn = 1
         /\ sum(game.dealer_hand) <= blackjack_num
         /\ sum(game.dealer_hand) >= dealer_limit
    ELSE game.turn = 2

bust_never_wins(game) ==
    /\ non_bust_on(game)
    /\ compared(game) => /\ sum(game.player_hand) <= blackjack_num
                         /\ sum(game.dealer_hand) <= blackjack_num
    /\ is_game_over(game) = <<TRUE, One>> =>
           sum(game.player_hand) <= blackjack_num

C25_BustHandNeverPlaysOn ==
    /\ \A i \in 1..Len(stack) : bust_never_wins(stack[i].game)
    /\ pc \in {"play", "over"} => bust_never_wins(episode.game)

\* a play-out in which the player hit, stayed at blackjack_num or less, and
\* won the comparison of the sums
C25_Witness ==
    /\ pc = "over"
    /\ compared(episode.game)
    /\ Len(episode.game.player_hand) >= 3
    /\ is_game_over(episode.game) = <<TRUE, One>>


(***************************************************************************)
(* C26: get_features is injective on the states the solvers reach from     *)
(* the enumerated initial states of one configuration: two such states     *)
(* with equal features have the same dealer sum, the same player sum and   *)
(* the same cards left in the deck.  Each state a solver is called on is   *)
(* compared with every state a solver was called on before it.             *)
(***************************************************************************)
same_sums(g, h) ==
    /\ sum(g.dealer_hand) = sum(h.dealer_hand)
    /\ sum(g.player_hand) = sum(h.player_hand)

same_deck(g, h) ==
    \A card \in 1..MaxCard : count(g.deck, card) = count(h.deck, card)

\* the first two features; arrays that differ there are not compared
\* further
sums_of_features(g) ==
    <<Rat(sum(g.dealer_hand), blackjack_num),
      Rat(sum(g.player_hand), blackjack_num)>>

same_features(g, h) ==
    /\ features_defined(g)
    /\ features_defined(h)
    /\ sums_of_features(g) = sums_of_features(h)
    /\ get_features(g) = get_features(h)

\* a state is compared when a solver is first called on it: later calls on
\* it are answered from record
C26_FeaturesAreInjective ==
    (running /\ top.phase = "enter"
        /\ get_game_state_representation(top.game) \notin DOMAIN record) =>
        \A key \in DOMAIN first_seen :
            same_features(first_seen[key], top.game) =>
                /\ same_sums(first_seen[key], top.game)
                /\ same_deck(first_seen[key], top.game)

\* a call on a state that shares its features with an earlier state of
\* another turn, and its two sums, but not its deck, with a third
C26_Witness ==
    /\ running
    /\ top.phase = "enter"
    /\ get_game_state_representation(top.game) \notin DOMAIN record
    /\ \E key \in DOMAIN first_seen :
           /\ same_features(first_seen[key], top.game)
           /\ first_seen[key].turn # top.game.turn
    /\ \E key \in DOMAIN first_seen :
           /\ features_defined(first_seen[key])
           /\ same_sums(first_seen[key], top.game)
           /\ ~same_deck(first_seen[key], top.game)


(***************************************************************************)
(* C27: no policy beats the analytical optimum.  Whatever the oracles,     *)
(* the value the one-player policy-driven solver returns for a state is    *)
(* at most the optimal slot of the analytical solver for that state; in    *)
(* the two-player variant the policy-vs-random slot (aprd) is at most the  *)
(* optimal-vs-random slot (oprd) and the random-vs-policy slot (rpad) is   *)
(* at least the random-vs-optimal slot (rpod).                             *)
(***************************************************************************)
within_optimum(value, optimum) ==
    IF variant = 1 THEN RLeq(value[1], optimum[1])
    ELSE /\ RLeq(value[2], optimum[2])
         /\ RLeq(optimum[3], value[3])

C27_NoPolicyBeatsTheOptimum ==
    (solver = "ai" /\ last_return.how # "none") =>
        within_optimum(last_return.value, theoretical(last_game))

\* a computed value strictly inside the optimum in each slot the claim
\* bounds, at a state where the player's oracle was asked
C27_Witness ==
    /\ solver = "ai"
    /\ last_return.how = "computed"
    /\ last_game.turn = 0
    /\ LET optimum == theoretical(last_game)
       IN IF variant = 1 THEN RLess(last_return.value[1], optimum[1])
          ELSE /\ RLess(last_return.value[2], optimum[2])
               /\ RLess(optimum[3], last_return.value[3])


(***************************************************************************)
(* C28: in the two-player analytical solver an optimal dealer is never     *)
(* better for the player than a random dealer: every value the solver      *)
(* returns has opod <= oprd and rpod <= rprd, so the dealer win rates      *)
(* 1 - opod and 1 - oprd of the dealer skill score satisfy                 *)
(* 1 - opod >= 1 - oprd; the totals of the aggregator inherit the order.   *)
(***************************************************************************)
RSub(a, b) == RAdd(a, <<0 - b[1], b[2]>>)

optimal_dealer_is_no_better(value) ==
    /\ RLeq(value[1], value[2])
    /\ RLeq(value[3], value[4])
    /\ RLeq(RSub(One, value[2]), RSub(One, value[1]))

C28_OptimalDealerNeverBetterForPlayer ==
    (variant = 2 /\ solver = "theoretical") =>
        /\ last_return.how # "none" =>
               optimal_dealer_is_no_better(last_return.value)
        /\ pc = "done" => optimal_dealer_is_no_better(totals)

\* a computed value where the optimal dealer is strictly worse for both
\* players than the random dealer
C28_Witness ==
    /\ variant = 2
    /\ solver = "theoretical"
    /\ last_return.how = "computed"
    /\ RLess(last_return.value[1], last_return.value[2])
    /\ RLess(last_return.value[3], last_return.value[4])
    /\ RLess(Zero, last_return.value[1])


(***************************************************************************)
(* The play-outs of the shipped configurations: deck [1,2,3,4]*2 and       *)
(* blackjack_num 8 in both variants, dealer_limit 6 in the one-player      *)
(* variant.  np.random.shuffle can leave the deck in any order; the loops  *)
(* run with an agent on each side or with the random strategy.             *)
(***************************************************************************)
\* every order of the cards
Orderings(cards) ==
    {s \in [1..Len(cards) -> {cards[i] : i \in 1..Len(cards)}] :
        \A i \in 1..Len(cards) : count(s, cards[i]) = count(cards, cards[i])}

ShippedAgent(feature) ==
    [kind |-> "RLAgent", feature |-> feature, bar |-> Rat(2, 3),
     action |-> -1]

InitShippedPlay ==
    /\ variant \in {1, 2}
    /\ solver = "ai"
    /\ deck_copy = ShippedDeck
    /\ blackjack_num = ShippedBlackjackNum
    /\ dealer_limit = IF variant = 1 THEN ShippedDealerLimit ELSE 0
    /\ \E trained \in BOOLEAN :
         /\ player_agent = IF trained
                           THEN ShippedAgent(2)
                           ELSE NoAgent
         /\ dealer_agent = IF trained /\ variant = 2
                           THEN ShippedAgent(1)
                           ELSE NoAgent
    /\ previous = <<>>
    /\ pc = "start"
    /\ initial_states = <<>>
    /\ idx = 0
    /\ record = <<>>
    /\ stack = <<>>
    /\ totals = <<>>
    /\ last_return = [game |-> <<>>, value |-> <<>>, how |-> "none"]
    /\ first_seen = <<>>
    /\ queried = <<>>
    /\ episode = NoEpisode

NextShippedPlay ==
    \/ \E loop \in Loops : Reset(loop, Orderings(deck_copy))
    \/ PlayerActs
    \/ DealerActs
    \/ EndEpisode

\* one pass of the while loop, or leaving it
LoopStep ==
    \/ PlayerActs
    \/ DealerActs
    \/ EndEpisode

\* the interpreter keeps running the loop: a pass is possible exactly while
\* pc = "play", so weak fairness of LoopStep is that a behaviour that
\* stays at "play" takes passes again and again; leaving the loop is
\* weakly fair as well
SpecShippedPlay ==
    /\ InitShippedPlay
    /\ [][NextShippedPlay]_vars
    /\ WF_vars(EndEpisode)
    /\ ([]<>(pc # "play") \/ []<><<LoopStep>>_vars)

(***************************************************************************)
(* C29: with the shipped configuration every play-out of the training and  *)
(* evaluation loops reaches a state where is_game_over is true after       *)
(* finitely many apply_action steps, whatever the actions of the player    *)
(* (and of the dealer in the two-player variant; the one-player dealer     *)
(* always hits), and deal is never called on an empty deck.  Each step     *)
(* takes a card from the deck or passes the turn, so the number of steps   *)
(* left is bounded by the cards in the deck and the turns to come.         *)
(***************************************************************************)
steps_left(game) == Len(game.deck) + (max_turn - game.turn)

C29_ShippedPlayoutsTerminate ==
    /\ [](pc # "error" /\ episode.raised = "none")
    /\ [][pc = "play" /\ pc' = "play" =>
              /\ steps_left(episode.game') < steps_left(episode.game)
              /\ steps_left(episode.game') >= 0]_vars
    /\ (pc = "play") ~> (pc = "over" /\ is_game_over(episode.game)[1])

\* a play-out that ended after the player took two cards and stayed and
\* the dealer took a card
C29_Witness ==
    /\ pc = "over"
    /\ is_game_over(episode.game)[1]
    /\ Len(episode.game.player_hand) >= 4
    /\ Len(episode.game.dealer_hand) >= 2


(***************************************************************************)
(* C30: in two-player training the end-of-episode update of the dealer     *)
(* agent (target: the flipped result) is applied to the features observed  *)
(* and the action chosen at the dealer's own last decision of the          *)
(* episode; it is never applied to an action chosen on the player's turn   *)
(* and it is not applied in an episode in which the dealer made no         *)
(* decision.                                                               *)
(***************************************************************************)
is_dealer_decision(decision) == decision.turn = 1
dealer_decisions == SelectSeq(episode.decisions, is_dealer_decision)

is_dealer_final_update(update) ==
    update.agent = "dealer" /\ ~update.bootstrapped
dealer_final_updates == SelectSeq(episode.updates, is_dealer_final_update)

trained_episode_over ==
    /\ pc = "over"
    /\ variant = 2
    /\ episode.loop = "train"
    /\ dealer_agent # NoAgent

C30_DealerFinalUpdateIsDealersOwn ==
    trained_episode_over =>
        IF dealer_decisions = <<>> THEN dealer_final_updates = <<>>
        ELSE LET last == dealer_decisions[Len(dealer_decisions)]
             IN /\ Len(dealer_final_updates) = 1
                /\ dealer_final_updates[1].features = last.features
                /\ dealer_final_updates[1].action_index = last.action_index
                /\ dealer_final_updates[1].target
                      = flipped(is_game_over(episode.game)[2])

\* the episodes the claim is right about: the dealer decided at least once
C30_AfterDealerDecision ==
    (trained_episode_over /\ dealer_decisions # <<>>) =>
        C30_DealerFinalUpdateIsDealersOwn

=============================================================================
